---------------------------- MODULE Spec2Model ----------------------------
(***************************************************************************)
(* Weekly-report Telegram bot: the dialogue engine (StateMachine, the five *)
(* states, the session context) and the data-access layer (CacheManager,   *)
(* GoogleSheetsService) it calls.                                          *)
(*                                                                         *)
(* Strings are sequences of tokens.  A token is one special character      *)
(* ("/", " ", ";", "!", "-", a digit) or a run of ordinary letters         *)
(* ("task", "done").  startsWith, trim, split, join, parseInt and includes *)
(* are computed on these sequences the way the JavaScript computes them on *)
(* characters.                                                             *)
(*                                                                         *)
(* The draft class is services/sheets/models/WeeklyReport (fields id,      *)
(* userId, date, status, completedTasks, plannedTasks, comment), the class *)
(* the states and the service import; the states add the fields state,     *)
(* incompleteTasks and nextWeekPlans to the instance.                      *)
(***************************************************************************)
EXTENDS Integers, Sequences, FiniteSets, TLC

(***************************************************************************)
(* Bounds of the model (not program constants).                            *)
(***************************************************************************)
\* the lines (tasks and comment) the user types into one draft
MaxLines == 3
\* the user is done with the bot once the reports sheet holds this many rows
MaxReports == 1
\* the k-th Telegram call of an update may fail alone for k up to this
MaxCalls == 3
\* the clock of the cache stops advancing here (milliseconds)
MaxNow == 3000
\* the rows a sheet holds when the store is exercised on its own
MaxRows == 1
\* the clients an uninitialized service builds while its probe keeps failing
MaxInits == 1
\* the clock of the store stops advancing here (milliseconds)
MaxStoreNow == 450000

(***************************************************************************)
(* Optional values: <<>> is undefined / absent, <<x>> is x.                *)
(***************************************************************************)
None == <<>>
Some(x) == <<x>>
IsSome(o) == Len(o) > 0
Get(o) == o[1]

(***************************************************************************)
(* String helpers.                                                         *)
(***************************************************************************)
Digits == {"0", "1", "2", "3", "4", "5", "6", "7", "8", "9"}

DigitVal(d) ==
  CASE d = "0" -> 0 [] d = "1" -> 1 [] d = "2" -> 2 [] d = "3" -> 3
    [] d = "4" -> 4 [] d = "5" -> 5 [] d = "6" -> 6 [] d = "7" -> 7
    [] d = "8" -> 8 [] d = "9" -> 9

\* String.prototype.startsWith(c) for a one-character c
StartsWith(text, c) == Len(text) > 0 /\ text[1] = c

RECURSIVE TrimLeft(_)
TrimLeft(text) ==
  IF Len(text) > 0 /\ text[1] = " " THEN TrimLeft(Tail(text)) ELSE text

RECURSIVE TrimRight(_)
TrimRight(text) ==
  IF Len(text) > 0 /\ text[Len(text)] = " "
  THEN TrimRight(SubSeq(text, 1, Len(text) - 1))
  ELSE text

\* String.prototype.trim
Trim(text) == TrimRight(TrimLeft(text))

\* String.prototype.split(sep): the list of the pieces between separators
RECURSIVE SplitAcc(_, _, _)
SplitAcc(text, sep, cur) ==
  IF Len(text) = 0 THEN <<cur>>
  ELSE IF text[1] = sep THEN <<cur>> \o SplitAcc(Tail(text), sep, <<>>)
  ELSE SplitAcc(Tail(text), sep, Append(cur, text[1]))

Split(text, sep) == SplitAcc(text, sep, <<>>)

\* Array.prototype.join(sep)
RECURSIVE Join(_, _)
Join(list, sep) ==
  IF Len(list) = 0 THEN <<>>
  ELSE IF Len(list) = 1 THEN list[1]
  ELSE list[1] \o <<sep>> \o Join(Tail(list), sep)

\* the digits a string starts with, as a number; -1 when there is none
RECURSIVE DigitsPrefix(_, _, _)
DigitsPrefix(text, acc, seen) ==
  IF Len(text) > 0 /\ text[1] \in Digits
  THEN DigitsPrefix(Tail(text), 10 * acc + DigitVal(text[1]), TRUE)
  ELSE IF seen THEN acc ELSE -1

\* parseInt(text, 10): leading blanks, an optional sign, then digits
ParseInt(text) ==
  LET t == TrimLeft(text)
      neg == StartsWith(t, "-")
      body == IF neg \/ StartsWith(t, "+") THEN Tail(t) ELSE t
      n == DigitsPrefix(body, 0, FALSE)
  IN  IF n < 0 THEN [nan |-> TRUE, val |-> 0]
      ELSE [nan |-> FALSE, val |-> IF neg THEN 0 - n ELSE n]

\* String.prototype.includes(pattern)
Includes(text, pattern) ==
  \E i \in 0..(Len(text) - Len(pattern)) :
    SubSeq(text, i + 1, i + Len(pattern)) = pattern

\* String.prototype.toLowerCase, token by token
LowerToken(tok) ==
  CASE tok = "Otmena" -> "otmena"
    [] tok = "DONE" -> "done"
    [] OTHER -> tok

ToLowerCase(text) == [i \in 1..Len(text) |-> LowerToken(text[i])]


(***************************************************************************)
(* CacheManager: a map key -> [value, expires]; now is Date.now().         *)
(***************************************************************************)
\* the entry's time to live has run out at time t
ExpiredAtExpiry(t, item) == t >= item.expires
Expired(t, item) == t > item.expires

Without(c, keys) == [k \in (DOMAIN c) \ keys |-> c[k]]

\* get(key): the value, or null when the key is absent or its entry expired;
\* an expired entry is removed
CacheGet(c, t, key) ==
  IF key \notin DOMAIN c THEN [cache |-> c, value |-> None]
  ELSE IF Expired(t, c[key]) THEN [cache |-> Without(c, {key}), value |-> None]
  ELSE [cache |-> c, value |-> Some(c[key].value)]

\* the mutant takes the time to live for milliseconds
CacheSetMillis(c, t, key, value, ttlSeconds) ==
  [k \in (DOMAIN c) \cup {key} |->
     IF k = key THEN [value |-> value, expires |-> t + ttlSeconds]
     ELSE c[k]]

\* set(key, value, ttlSeconds)
CacheSet(c, t, key, value, ttlSeconds) ==
  [k \in (DOMAIN c) \cup {key} |->
     IF k = key THEN [value |-> value, expires |-> t + ttlSeconds * 1000]
     ELSE c[k]]

\* delete(key)
CacheDelete(c, key) == Without(c, {key})

\* the mutant deletes no key
CacheDeleteNothing(c, pattern) == c
\* deleteByPattern(pattern): every key that includes the pattern
CacheDeleteByPattern(c, pattern) ==
  Without(c, {k \in DOMAIN c : Includes(k, pattern)})

\* clear()
CacheClear(c) == Without(c, DOMAIN c)

\* the mutant sweeps an entry at the moment it expires
CleanupAtExpiry(c, t) ==
  Without(c, {k \in DOMAIN c : t >= c[k].expires})
\* _cleanupExpiredItems(): the periodic sweep
CleanupExpiredItems(c, t) ==
  Without(c, {k \in DOMAIN c : t > c[k].expires})

(***************************************************************************)
(* The remote spreadsheet and GoogleSheetsService.                         *)
(* A range is <<sheet, "!", columns>> or <<sheet, "!", "A", n, ":", "I",   *)
(* n>>; the service's operations thread a record m that holds the remote   *)
(* sheets, the cache, the clock, the failure the environment chose for     *)
(* this update and whether an exception is propagating (raised).           *)
(***************************************************************************)
ReportsSheet == "Reports"
UsersSheet == "Users"
SpreadsheetId == "SID"
\* the TTL getData passes to cache.set, in seconds
DataTtl == 300

NumTok(n) ==
  CASE n = 0 -> "0" [] n = 1 -> "1" [] n = 2 -> "2" [] n = 3 -> "3"
    [] n = 4 -> "4" [] n = 5 -> "5" [] n = 6 -> "6" [] n = 7 -> "7"
    [] n = 8 -> "8" [] n = 9 -> "9"

ColumnsRange(sheet, cols) == <<sheet, "!", cols>>
RowRange(sheet, n) == <<sheet, "!", "A", NumTok(n), ":", "I", NumTok(n)>>

\* `sheets_${this.spreadsheetId}_${range}`
CacheKeyOf(range) == <<"sheets_", SpreadsheetId, "_">> \o range

SheetOf(range) == Split(range, "!")[1][1]

\* the number of columns of a whole-column range
ColumnsOf(range) ==
  CASE range[3] = "A:E" -> 5 [] range[3] = "A:G" -> 7 [] range[3] = "A:I" -> 9

\* the row number of a single-row range
RowOf(range) == DigitVal(range[4])

\* spreadsheets.values.get: the rows of the sheet, cut to the range's columns
ReadRange(sh, range) ==
  LET rows == sh[SheetOf(range)]
      n == ColumnsOf(range)
  IN  [i \in 1..Len(rows) |->
         SubSeq(rows[i], 1, IF Len(rows[i]) < n THEN Len(rows[i]) ELSE n)]

\* the mutant loses the failure of the remote call
RemoteCallSwallowed(m) == [m EXCEPT !.nremote = @ + 1]
\* the outcome of the next remote call: the environment makes the rFail-th
\* remote call of the update fail (after withRetry gave up)
RemoteCall(m) == [m EXCEPT !.nremote = @ + 1, !.raised = (m.nremote + 1 = m.rFail)]

\* the mutant has no test of the initialized flag: every call builds a client
\* and probes
InitializeAlways(m) ==
  [m EXCEPT !.svc = [initialized |-> m.probe, client |-> m.svc.client + 1],
            !.probed = TRUE]

\* initialize(): nothing when the flag is set; else a new client, then
\* _testConnection, whose outcome (probe) the environment chose; the flag
\* is set when the probe succeeds and cleared when it fails
Initialize(m) ==
  IF m.svc.initialized THEN m
  ELSE [m EXCEPT !.svc = [initialized |-> m.probe, client |-> m.svc.client + 1],
                 !.probed = TRUE]

\* _ensureInitialized after initialize has run in i: throws when the flag
\* is still clear
RequireInitialized(i) ==
  IF i.svc.initialized THEN i ELSE [i EXCEPT !.raised = TRUE]

\* _ensureInitialized()
EnsureInitialized(m) ==
  IF m.raised THEN m
  ELSE IF m.svc.initialized THEN m
  ELSE RequireInitialized(Initialize(m))

\* getData after _ensureInitialized
GetDataReady(m, range, forceRefresh) ==
  LET key == CacheKeyOf(range)
      got == IF forceRefresh THEN [cache |-> m.cache, value |-> None]
             ELSE CacheGet(m.cache, m.now, key)
  IN  IF m.raised THEN m
      ELSE IF IsSome(got.value)
      THEN [m EXCEPT !.cache = got.cache, !.val = Get(got.value)]
      ELSE LET r == RemoteCall([m EXCEPT !.cache = got.cache])
               result == ReadRange(m.sheets, range)
           IN  IF r.raised THEN r
               ELSE [r EXCEPT !.cache = CacheSet(r.cache, r.now, key, result, DataTtl),
                              !.val = result]

\* getData(range, forceRefresh)
GetData(m, range, forceRefresh) ==
  GetDataReady(EnsureInitialized(m), range, forceRefresh)

\* updateData after _ensureInitialized: one row written over the row the
\* range names
UpdateDataReady(m, range, values) ==
  LET r == RemoteCall(m)
      sheet == SheetOf(range)
  IN  IF m.raised THEN m
      ELSE IF r.raised THEN r
      ELSE [r EXCEPT !.sheets[sheet][RowOf(range)] = values[1],
                     !.cache = CacheDelete(r.cache, CacheKeyOf(range))]

\* updateData(range, values)
UpdateData(m, range, values) ==
  UpdateDataReady(EnsureInitialized(m), range, values)

\* the mutant writes the rows over the sheet
AppendDataOverwrites(m, range, values) ==
  LET r == RemoteCall(m)
      sheet == SheetOf(range)
  IN  IF m.raised THEN m
      ELSE IF r.raised THEN r
      ELSE [r EXCEPT !.sheets[sheet] = values,
                     !.cache = CacheDeleteByPattern(
                                  r.cache, <<"sheets_", SpreadsheetId, "_", sheet>>)]
\* appendData after _ensureInitialized: rows added after the last row of
\* the sheet
AppendDataReady(m, range, values) ==
  LET r == RemoteCall(m)
      sheet == SheetOf(range)
  IN  IF m.raised THEN m
      ELSE IF r.raised THEN r
      ELSE [r EXCEPT !.sheets[sheet] = @ \o values,
                     !.cache = CacheDeleteByPattern(
                                  r.cache, <<"sheets_", SpreadsheetId, "_", sheet>>)]

\* appendData(range, values)
AppendData(m, range, values) ==
  AppendDataReady(EnsureInitialized(m), range, values)

(***************************************************************************)
(* Rows.  A reports row is <<id, userId, date, status, completedTasks,     *)
(* plannedTasks, comment>>, every cell a string.  A users row is           *)
(* <<userId, username, firstName, lastName, registrationDate,              *)
(* lastReportDate, reportsCount, completedTasksCount, plannedTasksCount>>, *)
(* the last three cells numbers.                                           *)
(***************************************************************************)
OrEmpty(o) == IF IsSome(o) THEN Get(o) ELSE <<>>
\* x || null for a string cell: '' and a missing cell are null
TextCell(row, i) == IF i <= Len(row) /\ row[i] # <<>> THEN Some(row[i]) ELSE None
\* parseInt(row[i] || '0', 10) for a number cell
IntCell(row, i) == IF i <= Len(row) THEN row[i] ELSE 0

\* Array.prototype.findIndex on row[0] === userId, counted from 1; 0 for -1
FindUserIndex(rows, userId) ==
  IF \E i \in 1..Len(rows) : rows[i][1] = userId
  THEN CHOOSE i \in 1..Len(rows) :
         /\ rows[i][1] = userId
         /\ \A j \in 1..(i - 1) : rows[j][1] # userId
  ELSE 0

\* new UserStats(data) of services/sheets/models
NewUserStats(userId, registrationDate) ==
  [userId |-> userId, username |-> None, firstName |-> None, lastName |-> None,
   registrationDate |-> registrationDate, lastReportDate |-> None,
   reportsCount |-> 0, completedTasksCount |-> 0, plannedTasksCount |-> 0]

\* getUserStats after the rows have arrived in d: null, or the user's row
UserStatsOfRows(d, userId) ==
  LET i == FindUserIndex(d.val, userId)
      userRow == d.val[i]
  IN  IF d.raised THEN d
      ELSE IF i = 0 THEN [d EXCEPT !.val = None]
      ELSE [d EXCEPT !.val = Some(
              [userId |-> userRow[1],
               username |-> TextCell(userRow, 2),
               firstName |-> TextCell(userRow, 3),
               lastName |-> TextCell(userRow, 4),
               registrationDate |-> OrEmpty(TextCell(userRow, 5)),
               lastReportDate |-> TextCell(userRow, 6),
               reportsCount |-> IntCell(userRow, 7),
               completedTasksCount |-> IntCell(userRow, 8),
               plannedTasksCount |-> IntCell(userRow, 9)])]

\* getUserStats(userId): the rows are read through the range A:G
GetUserStats(m, userId) ==
  UserStatsOfRows(GetData(m, ColumnsRange(UsersSheet, "A:G"), FALSE), userId)

UserStatsRow(st) ==
  <<st.userId, OrEmpty(st.username), OrEmpty(st.firstName), OrEmpty(st.lastName),
    st.registrationDate, OrEmpty(st.lastReportDate),
    st.reportsCount, st.completedTasksCount, st.plannedTasksCount>>

\* updateUserStats after the rows of A:I have arrived in d: the row is
\* appended, or written over the user's row
PutUserStatsRow(d, userId, values) ==
  LET userIndex == FindUserIndex(d.val, userId)
  IN  IF d.raised THEN d
      ELSE IF userIndex = 0
      THEN AppendData(d, ColumnsRange(UsersSheet, "A:I"), values)
      ELSE UpdateData(d, RowRange(UsersSheet, userIndex), values)

\* the statistics updateUserStats writes: those getUserStats answered in g,
\* or new ones, with the counters incremented and the other fields assigned
UpdatedUserStats(g, userId, upd) ==
  LET base == IF IsSome(g.val) THEN Get(g.val) ELSE NewUserStats(userId, <<"today">>)
  IN  [base EXCEPT !.lastReportDate = Some(upd.lastReportDate),
                   !.reportsCount = @ + upd.reportsCount,
                   !.completedTasksCount = @ + upd.completedTasksCount,
                   !.plannedTasksCount = @ + upd.plannedTasksCount]

\* updateUserStats after getUserStats has answered in g: counters are
\* incremented, the other fields assigned; then all the rows are read
ApplyUserStatsUpdate(g, userId, upd) ==
  IF g.raised THEN g
  ELSE PutUserStatsRow(GetData(g, ColumnsRange(UsersSheet, "A:I"), FALSE),
                       userId, <<UserStatsRow(UpdatedUserStats(g, userId, upd))>>)

\* updateUserStats(userId, updateData)
UpdateUserStats(m, userId, upd) ==
  ApplyUserStatsUpdate(GetUserStats(m, userId), userId, upd)

ReportRow(report) ==
  <<report.id, report.userId, report.date, report.status,
    Join(report.completedTasks, ";"), Join(report.plannedTasks, ";"),
    report.comment>>

\* what saveReport adds to the user's statistics for the report r
ReportCounts(r) ==
  [lastReportDate |-> r.date, reportsCount |-> 1,
   completedTasksCount |-> Len(r.completedTasks),
   plannedTasksCount |-> Len(r.plannedTasks)]

\* saveReport after the row has been appended in a: the user's statistics
CountReport(a, r) ==
  IF a.raised THEN a ELSE UpdateUserStats(a, r.userId, ReportCounts(r))

\* saveReport after _ensureInitialized; report is the session's draft, absent when the
\* session holds none (reading report.id then throws)
SaveReportReady(m, report) ==
  IF m.raised THEN m
  ELSE IF ~IsSome(report) THEN [m EXCEPT !.raised = TRUE]
  ELSE LET r == Get(report)
       IN  CountReport(
             AppendData(m, ColumnsRange(ReportsSheet, "A:G"), <<ReportRow(r)>>), r)

\* saveReport(report)
SaveReport(m, report) == SaveReportReady(EnsureInitialized(m), report)

(***************************************************************************)
(* The dialogue.  config.states, the registered states in registration     *)
(* order, and the texts the user sends.                                    *)
(***************************************************************************)
NONE == "none"
ENTERING_STATE == "entering_state"
MARKING_TASKS == "marking_tasks"
ADDING_TASKS == "adding_tasks"
ENTERING_COMMENT == "entering_comment"

\* TelegramController._registerStates
RegisteredStates ==
  <<NONE, ENTERING_STATE, MARKING_TASKS, ADDING_TASKS, ENTERING_COMMENT>>

\* StateMachine.initialState
InitialState == NONE

\* StateMachine.hasState
HasState(s) == \E i \in 1..Len(RegisteredStates) : RegisteredStates[i] = s

UserId == <<"u", "1">>

T_start == <<"/", "start">>
T_help == <<"/", "help">>
T_report == <<"/", "report">>
T_stats == <<"/", "stats">>
T_done == <<"/", "done">>
T_skip == <<"/", "skip">>
T_cancel == <<"/", "cancel">>
T_submit == <<"/", "submit">>
T_7 == <<"7">>
T_15 == <<"1", "5">>
T_0 == <<"0">>
T_minus3 == <<"-", "3">>
T_task == <<"task">>
\* a text of 1001 characters, and one of 1000 characters between two spaces
T_long == <<"long">>
T_full == <<" ", "full", " ">>
BtnCreateReport == <<"BtnCreate", " ", "report">>
BtnMyStats == <<"BtnMy", " ", "stats">>
BtnHelp == <<"BtnHelp">>

\* String.prototype.length: a word token counts its letters
TokenLength(tok) ==
  CASE tok = "task" -> 4 [] tok = "long" -> 1001 [] tok = "full" -> 1000
    [] tok = "done" -> 4
    [] tok = "skip" -> 4 [] tok = "help" -> 4 [] tok = "start" -> 5
    [] tok = "report" -> 6 [] tok = "cancel" -> 6 [] tok = "submit" -> 6
    [] tok = "stats" -> 5 [] tok = "otmena" -> 6 [] tok = "Otmena" -> 6
    [] OTHER -> 1

RECURSIVE TextLength(_)
TextLength(text) ==
  IF Len(text) = 0 THEN 0 ELSE TokenLength(text[1]) + TextLength(Tail(text))

\* text.split(' ')[0]
FirstWord(text) == Split(text, " ")[1]

(***************************************************************************)
(* One update is computed on a record m: the session context (ctx), the    *)
(* remote sheets, the cache and the clock, what the environment chose for  *)
(* the update (tgFails: the Telegram calls that throw, by their number in  *)
(* the update; rFail: the remote call that fails), and what the update did *)
(* so far: the Telegram calls made (sends), the engine's steps (events),   *)
(* whether an exception is propagating (raised), the handler's return      *)
(* value (ret: a state name, "null" or "undefined").                       *)
(***************************************************************************)
\* context.telegram.sendMessage / answerCallbackQuery
Tg(m, msg) ==
  IF m.raised THEN m
  ELSE LET n == m.ncalls + 1
       IN  [m EXCEPT !.ncalls = n,
                     !.sends = Append(@, [msg |-> msg, ok |-> n \notin m.tgFails]),
                     !.raised = n \in m.tgFails]

Ret(m, r) == IF m.raised THEN m ELSE [m EXCEPT !.ret = r]
Raise(m) == [m EXCEPT !.raised = TRUE]
Log(m, e) == IF m.raised THEN m ELSE [m EXCEPT !.events = Append(@, e)]
HasDraft(m) == IsSome(m.ctx.weeklyReport)
Draft(m) == Get(m.ctx.weeklyReport)
SetDraft(m, r) == IF m.raised THEN m ELSE [m EXCEPT !.ctx.weeklyReport = Some(r)]

\* new WeeklyReport({weekNumber, date, userId, username}): the constructor
\* keeps id, userId, date and takes the defaults for the rest
NewWeeklyReport(userId) ==
  [id |-> <<"id">>, userId |-> userId, date |-> <<"today">>,
   status |-> <<"Normal">>, completedTasks |-> <<>>, plannedTasks |-> <<>>,
   comment |-> <<>>,
   \* fields the states add: 0 and None are undefined
   state |-> 0, incompleteTasks |-> None, nextWeekPlans |-> None]

\* _cancelReport of ReportState, MarkingTasksState and CommentState
CancelReport(m) ==
  Tg([m EXCEPT !.ctx.weeklyReport = None], "cancelled")

\* the mutant cancels as the other states do and leaves the phase
AddingTasksCancelKeepsPhase(m) ==
  Tg([m EXCEPT !.ctx.weeklyReport = None], "cancelled")
\* AddingTasksState._cancelReport
AddingTasksCancelReport(m) ==
  Tg([m EXCEPT !.ctx.weeklyReport = None, !.ctx.taskPhase = "undefined"], "cancelled")

(***************************************************************************)
(* NoneState                                                               *)
(***************************************************************************)
NoneEnter(m) == Tg(m, "welcome")

NoneCanHandleCommand(command) ==
  command \in {T_start, T_help, T_report, T_stats}

\* _showStats: stats.formatForDisplay() throws for the UserStats the service
\* returns (it has no such method) and for null; the catch reports a failure
NoneShowStats(m) ==
  LET g == GetUserStats(m, UserId)
  IN  Ret(Tg([g EXCEPT !.raised = FALSE], "stats_failed"), "null")

NoneHandleCommand(m, command) ==
  CASE command = T_start -> Ret(Tg(Tg(m, "greeting"), "help"), "null")
    [] command = T_help -> Ret(Tg(m, "help"), "null")
    [] command = T_report -> Ret(m, ENTERING_STATE)
    [] command = T_stats -> NoneShowStats(m)
    [] OTHER -> Ret(Tg(Tg(m, "unknown_command"), "help"), "null")

NoneHandleMessage(m, text) ==
  IF text = <<>> THEN Ret(Tg(m, "ask_text"), "null")
  ELSE LET t == Trim(text)
       IN  IF StartsWith(t, "/") THEN NoneHandleCommand(m, t)
           ELSE IF t = BtnCreateReport THEN Ret(m, ENTERING_STATE)
           ELSE IF t = BtnMyStats THEN NoneShowStats(m)
           ELSE IF t = BtnHelp THEN Ret(Tg(m, "help"), "null")
           ELSE Ret(Tg(Tg(m, "not_understood"), "help"), "null")

(***************************************************************************)
(* ReportState (entering_state): the score                                 *)
(***************************************************************************)
minStateValue == 1
maxStateValue == 10

\* the mutant accepts scores above the maximum
ValidStateValueNoMax(p) == ~p.nan /\ p.val >= minStateValue
\* the negation of: isNaN(v) || v < minStateValue || v > maxStateValue
ValidStateValue(p) ==
  ~p.nan /\ p.val >= minStateValue /\ p.val <= maxStateValue

\* _startNewReport: the catch sends a failure message
StartNewReport(m) ==
  LET a == Tg(SetDraft(m, NewWeeklyReport(UserId)), "report_instructions")
  IN  IF a.raised THEN Tg([a EXCEPT !.raised = FALSE], "report_create_failed")
      ELSE a

ReportEnter(m) ==
  IF HasDraft(m) THEN Tg(m, "ask_continue_or_new") ELSE StartNewReport(m)

ReportHandleMessage(m, text) ==
  IF text = <<>> THEN Ret(Tg(m, "ask_number"), "null")
  ELSE LET t == Trim(text)
           p == ParseInt(t)
       IN  IF t = T_cancel \/ ToLowerCase(t) = <<"otmena">>
           THEN Ret(CancelReport(m), NONE)
           ELSE IF ~ValidStateValue(p) THEN Ret(Tg(m, "reject_score"), "null")
           ELSE IF ~HasDraft(m) THEN Raise(m)
           ELSE Ret(SetDraft(m, [Draft(m) EXCEPT !.state = p.val]), MARKING_TASKS)

ReportHandleCallbackQuery(m, data) ==
  LET a == Tg(m, "answer_callback")
  IN  CASE data = "report_continue" -> Ret(Tg(a, "continue_report"), "null")
        [] data = "report_new" ->
             Ret(IF a.raised THEN a ELSE StartNewReport(a), "null")
        [] OTHER -> Ret(a, "null")

(***************************************************************************)
(* MarkingTasksState (marking_tasks): the completed tasks                  *)
(***************************************************************************)
maxTasks == 15

MarkingEnter(m) ==
  IF ~HasDraft(m) THEN Tg(m, "report_not_found")
  ELSE IF Len(Draft(m).completedTasks) > 0 THEN Tg(m, "show_completed")
  ELSE Tg(SetDraft(m, [Draft(m) EXCEPT !.completedTasks = <<>>]),
          "completed_instructions")

MarkingHandleMessage(m, text) ==
  IF text = <<>> THEN Ret(Tg(m, "ask_completed_text"), "null")
  ELSE LET t == Trim(text)
       IN  IF StartsWith(t, "/")
           THEN CASE FirstWord(t) = T_done -> Ret(m, ADDING_TASKS)
                  [] FirstWord(t) = T_cancel -> Ret(CancelReport(m), NONE)
                  [] OTHER -> Ret(Tg(m, "unknown_command"), "null")
           \* context.weeklyReport.completedTasks throws without a draft
           ELSE IF ~HasDraft(m) THEN Raise(m)
           ELSE IF Len(Draft(m).completedTasks) >= maxTasks
                THEN Ret(Tg(m, "task_limit"), "null")
           ELSE Ret(Tg(SetDraft(m, [Draft(m) EXCEPT !.completedTasks = Append(@, t)]),
                       "show_completed"), "null")

(***************************************************************************)
(* AddingTasksState (adding_tasks): the unfinished tasks, then the plans   *)
(***************************************************************************)
PhaseOf(m) ==
  IF m.ctx.taskPhase = "undefined" THEN "incompleteTasks" ELSE m.ctx.taskPhase

AddingEnter(m) ==
  IF ~HasDraft(m) THEN Tg(m, "report_not_found")
  ELSE LET a == IF IsSome(Draft(m).incompleteTasks) THEN m
                ELSE SetDraft(m, [Draft(m) EXCEPT !.incompleteTasks = Some(<<>>)])
       IN  IF Len(Get(Draft(a).incompleteTasks)) = 0
           THEN Tg(a, "incomplete_instructions")
           ELSE Tg(a, "show_incompleteTasks")

\* the mutant ends the step at once, without the phase of the plans
AddingEndStep(m, msg) ==
  Ret([m EXCEPT !.ctx.taskPhase = "undefined"], ENTERING_COMMENT)

\* the DONE and SKIP cases: end the unfinished tasks, or end the plans
AddingEndPhase(m, msg) ==
  IF PhaseOf(m) = "incompleteTasks"
  THEN LET a == [m EXCEPT !.ctx.taskPhase = "nextWeekPlans"]
       IN  \* context.weeklyReport.nextWeekPlans throws without a draft
           IF ~HasDraft(a) THEN Raise(a)
           ELSE LET b == IF IsSome(Draft(a).nextWeekPlans) THEN a
                         ELSE SetDraft(a, [Draft(a) EXCEPT !.nextWeekPlans = Some(<<>>)])
                IN  Ret(Tg(b, msg), "null")
  ELSE Ret([m EXCEPT !.ctx.taskPhase = "undefined"], ENTERING_COMMENT)

\* the free text: push onto the list of the current phase
AddingPush(m, t) ==
  IF ~HasDraft(m) THEN Raise(m)
  ELSE LET phase == PhaseOf(m)
           tasksArray == IF phase = "incompleteTasks" THEN Draft(m).incompleteTasks
                         ELSE Draft(m).nextWeekPlans
       IN  \* tasksArray.length throws on undefined
           IF ~IsSome(tasksArray) THEN Raise(m)
           ELSE IF Len(Get(tasksArray)) >= maxTasks
                THEN Ret(Tg(m, "task_limit"), "null")
           ELSE LET list == Some(Append(Get(tasksArray), t))
                    d == IF phase = "incompleteTasks"
                         THEN [Draft(m) EXCEPT !.incompleteTasks = list]
                         ELSE [Draft(m) EXCEPT !.nextWeekPlans = list]
                IN  Ret(Tg(SetDraft(m, d), IF phase = "incompleteTasks"
                                           THEN "show_incompleteTasks"
                                           ELSE "show_nextWeekPlans"), "null")

AddingHandleMessage(m, text) ==
  IF text = <<>> THEN Ret(Tg(m, "ask_task_text"), "null")
  ELSE LET t == Trim(text)
       IN  IF StartsWith(t, "/")
           THEN CASE FirstWord(t) = T_done -> AddingEndPhase(m, "plans_instructions")
                  [] FirstWord(t) = T_skip -> AddingEndPhase(m, "skipped_incomplete")
                  [] FirstWord(t) = T_cancel -> Ret(AddingTasksCancelReport(m), NONE)
                  [] OTHER -> Ret(Tg(m, "unknown_command"), "null")
           ELSE AddingPush(m, t)

(***************************************************************************)
(* CommentState (entering_comment): the comment and the submission         *)
(***************************************************************************)
maxCommentLength == 1000

CommentEnter(m) ==
  IF ~HasDraft(m) THEN Tg(m, "report_not_found")
  ELSE IF Draft(m).comment # <<>> THEN Tg(m, "show_comment")
  ELSE Tg(m, "comment_instructions")

\* sheetsService.saveReport(context.weeklyReport); saves records the argument
CallSaveReport(m) ==
  IF m.raised THEN m
  ELSE SaveReport([m EXCEPT !.saves = Append(@, m.ctx.weeklyReport)],
                  m.ctx.weeklyReport)

\* the mutant deletes the draft before it knows that the save succeeded
SubmitOutcomeDiscards(a) ==
  IF a.raised
  THEN Ret(Tg([a EXCEPT !.raised = FALSE, !.ctx.weeklyReport = None], "save_failed"),
           "null")
  ELSE Ret([a EXCEPT !.ctx.weeklyReport = None], NONE)

\* _submitReport after its try block has run in a: the draft is deleted and
\* the dialogue ends, or the catch tells the user and stays
SubmitOutcome(a) ==
  IF a.raised
  THEN Ret(Tg([a EXCEPT !.raised = FALSE], "save_failed"), "null")
  ELSE Ret([a EXCEPT !.ctx.weeklyReport = None], NONE)

\* _submitReport: whatever is thrown inside is answered with a failure
\* message, and the draft stays
SubmitReport(m) ==
  SubmitOutcome(Tg(Tg(CallSaveReport(Tg(m, "sending")), "saved_ok"), "preview"))

\* the mutant has no limit
CommentNeverTooLong(text) == FALSE

\* text.length > this.maxCommentLength
CommentTooLong(text) == TextLength(text) > maxCommentLength

CommentHandleMessage(m, text) ==
  IF text = <<>> THEN Ret(Tg(m, "ask_comment_text"), "null")
  ELSE LET t == Trim(text)
       IN  IF StartsWith(t, "/")
           THEN CASE FirstWord(t) = T_skip ->
                       \* context.weeklyReport.comment = '' throws without a draft
                       IF ~HasDraft(m) THEN Raise(m)
                       ELSE SubmitReport(SetDraft(m, [Draft(m) EXCEPT !.comment = <<>>]))
                  [] FirstWord(t) = T_submit -> SubmitReport(m)
                  [] FirstWord(t) = T_cancel -> Ret(CancelReport(m), NONE)
                  [] OTHER -> Ret(Tg(m, "unknown_command"), "null")
           ELSE IF CommentTooLong(t)
                THEN Ret(Tg(m, "comment_too_long"), "null")
           ELSE IF ~HasDraft(m) THEN Raise(m)
           ELSE Ret(Tg(SetDraft(m, [Draft(m) EXCEPT !.comment = t]), "show_comment"),
                    "null")

(***************************************************************************)
(* StateMachine: the dispatch to the registered state objects, transition, *)
(* handleMessage and handleCallbackQuery.  The engine's steps are logged   *)
(* in events: <<"handle", s>> a call of s.handleMessage or                 *)
(* s.handleCallbackQuery, <<"can", s>> a call of s.canHandleCommand, and   *)
(* the four steps of transition, <<"exit", s>>, <<"set", s>>,              *)
(* <<"save", s>>, <<"enter", s>>.                                          *)
(***************************************************************************)
StateEnter(m, s) ==
  IF m.raised THEN m
  ELSE CASE s = NONE -> NoneEnter(m)
         [] s = ENTERING_STATE -> ReportEnter(m)
         [] s = MARKING_TASKS -> MarkingEnter(m)
         [] s = ADDING_TASKS -> AddingEnter(m)
         [] s = ENTERING_COMMENT -> CommentEnter(m)

\* BaseState.exit: nothing
StateExit(m, s) == m

StateHandleMessage(m, s, text) ==
  IF m.raised THEN m
  ELSE CASE s = NONE -> NoneHandleMessage(m, text)
         [] s = ENTERING_STATE -> ReportHandleMessage(m, text)
         [] s = MARKING_TASKS -> MarkingHandleMessage(m, text)
         [] s = ADDING_TASKS -> AddingHandleMessage(m, text)
         [] s = ENTERING_COMMENT -> CommentHandleMessage(m, text)

\* only ReportState overrides BaseState.handleCallbackQuery, which returns null
StateHandleCallbackQuery(m, s, data) ==
  IF m.raised THEN m
  ELSE IF s = ENTERING_STATE THEN ReportHandleCallbackQuery(m, data)
  ELSE Ret(m, "null")

\* only NoneState overrides BaseState.canHandleCommand, which returns false
StateCanHandleCommand(s, command) ==
  IF s = NONE THEN NoneCanHandleCommand(command) ELSE FALSE

\* context.state || this.initialState
CurrentStateName(ctx) == IF ctx.state = "null" THEN InitialState ELSE ctx.state

\* the mutant enters the new state before it sets and saves the state name
TransitionEnterFirst(m, newStateName) ==
  IF m.raised THEN m
  ELSE IF ~HasState(newStateName) THEN Raise(m)
  ELSE LET cur == CurrentStateName(m.ctx)
           a == IF cur # newStateName /\ HasState(cur)
                THEN StateExit(Log(m, <<"exit", cur>>), cur) ELSE m
           b == StateEnter(Log(a, <<"enter", newStateName>>), newStateName)
           c == Log(IF b.raised THEN b ELSE [b EXCEPT !.ctx.state = newStateName],
                    <<"set", newStateName>>)
       IN  Log(c, <<"save", newStateName>>)

\* transition(context, newStateName)
Transition(m, newStateName) ==
  IF m.raised THEN m
  ELSE IF ~HasState(newStateName) THEN Raise(m)
  ELSE LET cur == CurrentStateName(m.ctx)
           a == IF cur # newStateName /\ HasState(cur)
                THEN StateExit(Log(m, <<"exit", cur>>), cur) ELSE m
           b == Log([a EXCEPT !.ctx.state = newStateName], <<"set", newStateName>>)
           c == Log(b, <<"save", newStateName>>)
       IN  StateEnter(Log(c, <<"enter", newStateName>>), newStateName)

\* the mutant takes a handler's null for "not handled"
NotHandledOrNull(r) == r \in {"undefined", "null"}
\* nextStateName === undefined
NotHandled(r) == r = "undefined"

\* the loop over Object.entries(this.states), from the i-th registered state
RECURSIVE Intercept(_, _, _, _, _)
Intercept(m, cur, command, text, i) ==
  IF i > Len(RegisteredStates) THEN m
  ELSE LET s == RegisteredStates[i]
       IN  IF s = cur THEN Intercept(m, cur, command, text, i + 1)
           ELSE IF StateCanHandleCommand(s, command)
           THEN StateHandleMessage(
                  Log(Transition(Log(m, <<"can", s>>), s), <<"handle", s>>), s, text)
           ELSE Intercept(Log(m, <<"can", s>>), cur, command, text, i + 1)

\* after the loop has run in i: no state took the command and the current
\* state is not the initial one, so the session is reset to the initial state
ResetToInitial(i, cur, text) ==
  IF ~i.raised /\ NotHandled(i.ret) /\ cur # InitialState
  THEN StateHandleMessage(
         Log(Transition(i, InitialState), <<"handle", InitialState>>),
         InitialState, text)
  ELSE i

\* after the current state's handler has answered in h: when it did not
\* handle the command, the other states are asked
InterceptCommand(h, cur, text) ==
  IF h.raised \/ ~NotHandled(h.ret) THEN h
  ELSE ResetToInitial(Intercept(h, cur, ToLowerCase(FirstWord(text)), text, 1),
                      cur, text)

\* the branch of handleMessage for a text that starts with '/'
CommandBranch(m, cur, text) ==
  InterceptCommand(StateHandleMessage(Log(m, <<"handle", cur>>), cur, text),
                   cur, text)

\* if (nextStateName && nextStateName !== currentStateName) transition
FollowReturn(m, cur) ==
  IF ~m.raised /\ m.ret \notin {"null", "undefined"} /\ m.ret # cur
  THEN Transition(m, m.ret) ELSE m

\* part of a mutant: a handler's null sends the session to the initial state
ResetToInitialOnNull(h, cur) ==
  IF ~h.raised /\ h.ret = "null" /\ cur # InitialState
  THEN Transition(h, InitialState) ELSE FollowReturn(h, cur)

\* catch (error): tell the user; a failure of that telling is swallowed
Catch(m, msg) ==
  IF ~m.raised THEN m
  ELSE [Tg([m EXCEPT !.raised = FALSE, !.caught = TRUE], msg) EXCEPT !.raised = FALSE]

\* StateMachine.handleMessage; getState throws outside the try
EngineHandleMessage(m, text) ==
  LET cur == CurrentStateName(m.ctx)
  IN  IF ~HasState(cur) THEN [m EXCEPT !.escaped = TRUE]
      ELSE LET h == IF StartsWith(text, "/") THEN CommandBranch(m, cur, text)
                    ELSE StateHandleMessage(Log(m, <<"handle", cur>>), cur, text)
           IN  Catch(FollowReturn(h, cur), "error_notice")

\* the mutant treats a callback as a command: when the current state's
\* handler names no state, the session is reset to the initial state
EngineHandleCallbackQueryResets(m, data) ==
  LET cur == CurrentStateName(m.ctx)
  IN  IF ~HasState(cur) THEN [m EXCEPT !.escaped = TRUE]
      ELSE Catch(ResetToInitialOnNull(
                   StateHandleCallbackQuery(Log(m, <<"handle", cur>>), cur, data), cur),
                 "answer_error")

\* StateMachine.handleCallbackQuery
EngineHandleCallbackQuery(m, data) ==
  LET cur == CurrentStateName(m.ctx)
  IN  IF ~HasState(cur) THEN [m EXCEPT !.escaped = TRUE]
      ELSE Catch(FollowReturn(
                   StateHandleCallbackQuery(Log(m, <<"handle", cur>>), cur, data), cur),
                 "answer_error")

\* StateMachine.initializeState
InitializeState(m) ==
  IF m.ctx.state = "null" \/ ~HasState(m.ctx.state)
  THEN [m EXCEPT !.ctx.state = InitialState] ELSE m

\* TelegramController.handleUpdate for a message and for a callback query
HandleUpdate(m, kind, payload) ==
  IF kind = "message" THEN EngineHandleMessage(InitializeState(m), payload)
  ELSE EngineHandleCallbackQuery(InitializeState(m), payload)

\* the mutant has no catch: what is thrown inside leaves handleUpdate
Rethrow(b) == [b EXCEPT !.thrown = b.raised \/ b.escaped]

\* the try and catch of handleUpdate around b, what its body did: true is
\* returned, or false when anything was thrown inside; nothing is rethrown
CatchAll(b) ==
  [b EXCEPT !.result = IF b.raised \/ b.escaped THEN "false" ELSE "true"]

\* handleUpdate as a whole: getContextFromUpdate, where the loadSession hook
\* may throw for a user who is not in memory, then HandleUpdate, in the try
TryHandleUpdate(m, kind, payload, loadThrows) ==
  CatchAll(IF loadThrows THEN Raise(m) ELSE HandleUpdate(m, kind, payload))

(***************************************************************************)
(* The state.  context is the session of the one user, sheets the remote   *)
(* spreadsheet, cache the CacheManager's map, now the clock in ms.  The    *)
(* rest observes: last is what the last update did, scn how far the run    *)
(* has followed the reference dialogue, written and got what the cache was *)
(* last told and last asked; flight is the updates whose handling has     *)
(* begun and not ended, sm the SessionManager with the store behind its    *)
(* hooks.                                                                  *)
(***************************************************************************)
VARIABLES context, sheets, cache, now, last, scn, written, got, svc, flight, sm

vars == <<context, sheets, cache, now, last, scn, written, got, svc, flight, sm>>

EmptyCache == [k \in {} |-> None]

\* SessionManager._createContext: state null, no draft, no phase
NewContext == [state |-> "null", weeklyReport |-> None, taskPhase |-> "undefined"]

\* the keys, values and times to live of the cache operations
CacheKeys == {<<"a">>, <<"a", "b">>}
CachePatterns == {<<"a">>, <<"b">>}
CacheValues == {"v1", "v2"}
Ttls == {1, 2}
ClockSteps == {500, 1000}

\* the GoogleSheetsService after its constructor: the flag is clear and
\* there is no client; client counts the clients initialize has built
NewService == [initialized |-> FALSE, client |-> 0]

\* the users of the session manager, as the strings String(userId) gives
SessionUsers == {"1", "2"}

\* the SessionManager after its constructor: no session in memory.  heap is
\* the context objects made so far (sessions holds an object's place in
\* it), stored what the saveSession hook has kept for loadSession, waiting
\* the getContext calls that wait for loadSession, loads the calls of
\* loadSession so far
NewSessionManager ==
  [sessions |-> [u \in SessionUsers |-> None], heap |-> <<>>,
   stored |-> [u \in SessionUsers |-> None], waiting |-> <<>>, loads |-> 0]

\* no update is being handled
NoFlight ==
  [h |-> <<[pc |-> "idle", m |-> None, row |-> None],
           [pc |-> "idle", m |-> None, row |-> None]>>,
   serial |-> None]

NoObs ==
  [kind |-> "none", text |-> <<>>, data |-> "", from |-> NONE, ret |-> "undefined",
   events |-> <<>>, sends |-> <<>>, saves |-> <<>>, caught |-> FALSE,
   escaped |-> FALSE, kept |-> TRUE, wrote |-> FALSE, twice |-> FALSE,
   thrown |-> FALSE, result |-> "none", appended |-> 0, plain |-> EmptyCache]

Init ==
  /\ context = NewContext
  /\ sheets = [Reports |-> <<>>, Users |-> <<>>]
  /\ cache = EmptyCache
  /\ now = 0
  /\ last = NoObs
  /\ scn = 0
  /\ written = [k \in CacheKeys |-> None]
  /\ got = None
  /\ svc = NewService
  /\ flight = NoFlight
  /\ sm = NewSessionManager

\* the texts the user sends: commands in every state, a number only when
\* the bot has asked for the score, a comment of exactly 1000 characters or
\* a longer one when it has asked for the comment, a task line otherwise
Commands == {T_report, T_done, T_skip, T_cancel, T_submit, T_help}
Scores == {T_7, T_15, T_0, T_minus3}
Texts ==
  Commands
    \cup (IF CurrentStateName(context) = ENTERING_COMMENT
          THEN {T_long, T_full} ELSE {T_task})
    \cup (IF CurrentStateName(context) = ENTERING_STATE THEN Scores ELSE {})
\* the inline buttons the user presses
CallbackData == {"report_continue", "report_new"}

\* the update starts on the current state with the environment's choices
MachineWith(f, r, probe) ==
  [ctx |-> context, sheets |-> sheets, cache |-> cache, now |-> now,
   svc |-> svc, probe |-> probe, probed |-> FALSE,
   tgFails |-> f, rFail |-> r, ncalls |-> 0, nremote |-> 0,
   sends |-> <<>>, events |-> <<>>, saves |-> <<>>,
   raised |-> FALSE, caught |-> FALSE, escaped |-> FALSE,
   ret |-> "undefined", val |-> <<>>, thrown |-> FALSE, result |-> "none"]

\* in the dialogue the spreadsheet is reachable when the service first
\* probes it
Machine(f, r) == MachineWith(f, r, TRUE)

Min(a, b) == IF a < b THEN a ELSE b

\* Telegram delivery: every call of the update succeeds, or the k-th call
\* fails; n is the number of calls the update makes when none fails, so a
\* later k changes nothing
FaultPatterns(n) == {{}} \cup {{k} : k \in 1..Min(n, MaxCalls)}

\* the lines of text the user has typed into the draft: the tasks of the
\* three lists and the comment
LinesOf(ctx) ==
  IF ~IsSome(ctx.weeklyReport) THEN 0
  ELSE LET d == Get(ctx.weeklyReport)
       IN  Len(d.completedTasks) + Len(OrEmpty(d.incompleteTasks))
             + Len(OrEmpty(d.nextWeekPlans))
             + (IF d.comment = <<>> THEN 0 ELSE 1)

\* the user is done with the bot once MaxReports records are stored
Active == Len(sheets.Reports) < MaxReports

\* the user types at most MaxLines lines into a draft
WithinBounds(out) == LinesOf(out.ctx) <= MaxLines

\* the commands of the report flow
InFlowCommands == {T_done, T_skip, T_cancel}

\* the update repeats the in-flow command of the update before it, which had
\* changed the state name
Repeats(kind, text) ==
  /\ kind = "message" /\ text \in InFlowCommands
  /\ last.kind = "message" /\ last.text = text
  /\ last.from # CurrentStateName(context)

\* what the update did: from is the state it was dispatched in, kept whether
\* the session (state name, draft, phase) is as it was before the dispatch,
\* wrote whether the spreadsheet changed, appended the rows the reports
\* sheet gained
Obs(kind, text, data, out) ==
  [kind |-> kind, text |-> text, data |-> data, from |-> CurrentStateName(context),
   ret |-> out.ret, events |-> out.events, sends |-> out.sends,
   saves |-> out.saves, caught |-> out.caught, escaped |-> out.escaped,
   kept |-> (out.ctx = InitializeState(Machine({}, 0)).ctx),
   wrote |-> (out.sheets # sheets), twice |-> Repeats(kind, text),
   thrown |-> out.thrown, result |-> out.result,
   appended |-> Len(out.sheets.Reports) - Len(sheets.Reports)]

\* the reference dialogue: start a report, score 7, two completed tasks,
\* done, one more line, done, skip, submit
Scenario ==
  <<T_report, T_7, T_task, T_task, T_done, T_task, T_done, T_skip, T_submit>>

Idle ==
  /\ CurrentStateName(context) = NONE
  /\ context.weeklyReport = None
  /\ context.taskPhase = "undefined"
  /\ sheets.Reports = <<>>
  /\ sheets.Users = <<>>

\* nothing failed in the update
Clean(out) ==
  /\ \A i \in 1..Len(out.sends) : out.sends[i].ok
  /\ ~out.caught /\ ~out.escaped

ScenarioStep(text, out) ==
  IF ~Clean(out) THEN 0
  ELSE IF scn \in 1..(Len(Scenario) - 1) /\ text = Scenario[scn + 1] THEN scn + 1
  ELSE IF text = Scenario[1] /\ Idle THEN 1
  ELSE 0

Apply(out) ==
  /\ WithinBounds(out)
  /\ context' = out.ctx
  /\ sheets' = out.sheets
  /\ cache' = out.cache
  /\ svc' = out.svc
  /\ UNCHANGED <<now, written, got, flight, sm>>

\* a text message arrives
Message ==
  /\ Active
  /\ \E text \in Texts :
       \E clean \in {HandleUpdate(Machine({}, 0), "message", text)} :
         \E f \in FaultPatterns(clean.ncalls) :
           \E faulty \in {IF f = {} THEN clean
                          ELSE HandleUpdate(Machine(f, 0), "message", text)} :
             \E r \in 0..faulty.nremote :
               \E out \in {CatchAll(IF r = 0 THEN faulty
                                     ELSE HandleUpdate(Machine(f, r), "message", text))} :
                 /\ Apply(out)
                 /\ last' = Obs("message", text, "", out)
                 /\ scn' = ScenarioStep(text, out)

\* an inline button is pressed
Callback ==
  /\ Active
  /\ \E data \in CallbackData :
       \E clean \in {HandleUpdate(Machine({}, 0), "callback", data)} :
         \E f \in FaultPatterns(clean.ncalls) :
           \E out \in {CatchAll(IF f = {} THEN clean
                                 ELSE HandleUpdate(Machine(f, 0), "callback", data))} :
             /\ Apply(out)
             /\ last' = Obs("callback", <<>>, data, out)
             /\ scn' = 0

\* a message arrives for a user who is not in memory (no update of the
\* user was handled yet) and the loadSession hook throws: the update does
\* not reach the engine (last.kind is "message" or "callback" for the
\* updates that do)
LoadThrows ==
  /\ Active
  /\ context.state = "null"
  /\ \E text \in Texts :
       \E out \in {TryHandleUpdate(Machine({}, 0), "message", text, TRUE)} :
         /\ Apply(out)
         /\ last' = Obs("loadThrows", text, "", out)
         /\ scn' = 0

Next == Message \/ Callback \/ LoadThrows

Spec == Init /\ [][Next]_vars

(***************************************************************************)
(* The cache on its own: set, get, delete, deleteByPattern, clear, the     *)
(* periodic sweep, and the clock.  written[k] is the latest set of k still *)
(* in force (no delete or clear of k since), got the last get with the     *)
(* set that was in force when it was made.  last.plain is the cache of the *)
(* same run without the timer: every call but the sweep is made on it too, *)
(* and got.plain is what the get returned there.                           *)
(***************************************************************************)
Others == <<context, sheets, scn, svc, flight, sm>>

CSet ==
  \E k \in CacheKeys, v \in CacheValues, ttl \in Ttls :
    /\ cache' = CacheSet(cache, now, k, v, ttl)
    /\ last' = [last EXCEPT !.plain = CacheSet(@, now, k, v, ttl)]
    /\ written' = [written EXCEPT ![k] = Some([value |-> v, at |-> now, ttl |-> ttl])]
    /\ got' = None
    /\ UNCHANGED <<now, Others>>

CGet ==
  \E k \in CacheKeys :
    /\ cache' = CacheGet(cache, now, k).cache
    /\ last' = [last EXCEPT !.plain = CacheGet(@, now, k).cache]
    /\ got' = Some([key |-> k, value |-> CacheGet(cache, now, k).value,
                    at |-> now, set |-> written[k],
                    plain |-> CacheGet(last.plain, now, k).value,
                    swept |-> k \in (DOMAIN last.plain) \ (DOMAIN cache)])
    /\ UNCHANGED <<now, written, Others>>

CDelete ==
  \E k \in CacheKeys :
    /\ cache' = CacheDelete(cache, k)
    /\ last' = [last EXCEPT !.plain = CacheDelete(@, k)]
    /\ written' = [written EXCEPT ![k] = None]
    /\ got' = None
    /\ UNCHANGED <<now, Others>>

CDeleteByPattern ==
  \E pattern \in CachePatterns :
    /\ cache' = CacheDeleteByPattern(cache, pattern)
    /\ last' = [last EXCEPT !.plain = CacheDeleteByPattern(@, pattern)]
    /\ written' = [k \in CacheKeys |->
                     IF Includes(k, pattern) THEN None ELSE written[k]]
    /\ got' = None
    /\ UNCHANGED <<now, Others>>

CClear ==
  /\ cache' = CacheClear(cache)
  /\ last' = [last EXCEPT !.plain = CacheClear(@)]
  /\ written' = [k \in CacheKeys |-> None]
  /\ got' = None
  /\ UNCHANGED <<now, Others>>

\* the timer runs _cleanupExpiredItems
CSweep ==
  /\ cache' = CleanupExpiredItems(cache, now)
  /\ got' = None
  /\ UNCHANGED <<now, written, last, Others>>

Tick ==
  \E d \in ClockSteps :
    /\ now + d <= MaxNow
    /\ now' = now + d
    /\ got' = None
    /\ UNCHANGED <<cache, written, last, Others>>

NextCache == CSet \/ CGet \/ CDelete \/ CDeleteByPattern \/ CClear \/ CSweep \/ Tick

SpecCache == Init /\ [][NextCache]_vars

(***************************************************************************)
(* The report store on its own: the callers' operations getData,           *)
(* updateData, appendData and initialize, one at a time, and the clock.    *)
(* The environment chooses for every operation whether the connectivity    *)
(* probe succeeds and whether the remote call fails.  last is what the     *)
(* operation did: ok when it returned, val the rows getData returned,      *)
(* remote the remote calls it made, rFail the one of them that was to      *)
(* fail, probed whether it ran the probe, and                              *)
(* what held before it: what cache.get gives for the range's key           *)
(* (cachedBefore) and the rows of the range (rowsBefore); cacheKept tells  *)
(* that the cache is as it was, cachePurged that it is as it was but for   *)
(* an expired entry of the range's key.                                    *)
(***************************************************************************)
UsersAG == ColumnsRange(UsersSheet, "A:G")
UsersAI == ColumnsRange(UsersSheet, "A:I")
ReportsAG == ColumnsRange(ReportsSheet, "A:G")
ColumnRanges == {UsersAG, UsersAI, ReportsAG}
\* the ranges the callers read when the store is exercised on its own
ReadRanges == {UsersAI, ReportsAG}

\* the rows the callers write: the user's statistics with one or two reports
\* counted, and a report
UserRowWith(n) ==
  UserStatsRow([NewUserStats(UserId, <<"today">>) EXCEPT !.reportsCount = n])
UserRows == {UserRowWith(1), UserRowWith(2)}
AReportRow == ReportRow(NewWeeklyReport(UserId))

\* the clock advances by half the time to live of getData's entries
StoreClockStep == DataTtl * 500

\* an uninitialized service builds at most MaxInits clients
CanCall(probe) == IF svc.initialized THEN probe ELSE svc.client < MaxInits

StoreApply(out) ==
  /\ sheets' = out.sheets
  /\ cache' = out.cache
  /\ svc' = out.svc
  /\ UNCHANGED <<context, now, scn, written, got, flight, sm>>

StoreObs(kind, range, force, out) ==
  [kind |-> kind, range |-> range, force |-> force, ok |-> ~out.raised,
   val |-> out.val, remote |-> out.nremote, rFail |-> out.rFail,
   probed |-> out.probed,
   cacheKept |-> (out.cache = cache),
   cachePurged |-> (out.cache = CacheGet(cache, now, CacheKeyOf(range)).cache),
   cachedBefore |-> CacheGet(cache, now, CacheKeyOf(range)).value,
   rowsBefore |-> IF range \in ColumnRanges THEN ReadRange(sheets, range) ELSE <<>>]

SGetData ==
  \E range \in ReadRanges, force \in BOOLEAN, r \in {0, 1}, probe \in BOOLEAN :
    /\ CanCall(probe)
    /\ \E out \in {GetData(MachineWith({}, r, probe), range, force)} :
         /\ StoreApply(out)
         /\ last' = StoreObs("getData", range, force, out)

SUpdateData ==
  \E n \in 1..Len(sheets.Users), row \in UserRows, r \in {0, 1}, probe \in BOOLEAN :
    /\ CanCall(probe)
    /\ \E out \in {UpdateData(MachineWith({}, r, probe),
                                RowRange(UsersSheet, n), <<row>>)} :
         /\ StoreApply(out)
         /\ last' = StoreObs("updateData", RowRange(UsersSheet, n), FALSE, out)

SAppendData ==
  \E range \in {UsersAI, ReportsAG}, r \in {0, 1}, probe \in BOOLEAN :
    /\ CanCall(probe)
    /\ Len(sheets[SheetOf(range)]) < MaxRows
    /\ \E row \in (IF range = UsersAI THEN UserRows ELSE {AReportRow}) :
         \E out \in {AppendData(MachineWith({}, r, probe), range, <<row>>)} :
           /\ StoreApply(out)
           /\ last' = StoreObs("appendData", range, FALSE, out)

\* a caller calls initialize() itself
SInitialize ==
  \E probe \in BOOLEAN :
    /\ CanCall(probe)
    /\ \E out \in {Initialize(MachineWith({}, 0, probe))} :
         /\ StoreApply(out)
         /\ last' = StoreObs("initialize", <<>>, FALSE, out)

STick ==
  /\ now + StoreClockStep <= MaxStoreNow
  /\ now' = now + StoreClockStep
  /\ last' = [NoObs EXCEPT !.kind = "tick"]
  /\ UNCHANGED <<context, sheets, cache, scn, written, got, svc, flight, sm>>

NextStore == SGetData \/ SUpdateData \/ SAppendData \/ SInitialize \/ STick

SpecStore == Init /\ [][NextStore]_vars

(***************************************************************************)
(* SheetsErrorHandler, the retry policy the service builds with            *)
(* new SheetsErrorHandler() and calls as errorHandler.withRetry(fn).       *)
(* An error is a record: status is error.response.status (0 when there is *)
(* no response), data tells whether error.response.data is there,          *)
(* codeType whether error.code is absent, a string or a number, code its   *)
(* text, errors whether error.errors is there, message error.message.      *)
(* The operation fn is the list of the outcomes of its successive calls;   *)
(* past the list it returns.                                               *)
(***************************************************************************)
maxRetries == 3
retryDelayMs == 1000
retryBackoffFactor == 2

RETRYABLE_ERROR_CODES == {429, 500, 502, 503, 504}

AnError(status, data, codeType, code, errors, message) ==
  [fails |-> TRUE, status |-> status, data |-> data, codeType |-> codeType,
   code |-> code, errors |-> errors, message |-> message]

\* fn returns
Returns == [AnError(0, FALSE, "none", <<>>, FALSE, <<>>) EXCEPT !.fails = FALSE]

\* the errors fn throws
Errors ==
  { AnError(429, TRUE, "none", <<>>, FALSE, <<"too", " ", "many">>),
    AnError(503, FALSE, "none", <<>>, FALSE, <<"unavailable">>),
    AnError(400, TRUE, "none", <<>>, FALSE, <<"bad", " ", "request">>),
    AnError(0, FALSE, "string", <<"E", "CONNRESET">>, FALSE, <<"reset">>),
    AnError(0, FALSE, "string", <<"NOT_FOUND">>, TRUE, <<"no", " ", "sheet">>),
    AnError(0, FALSE, "string", <<"E", "RR_INVALID_ARG_TYPE">>, FALSE, <<"invalid">>),
    AnError(0, FALSE, "number", <<"4", "0", "3">>, TRUE, <<"forbidden">>),
    AnError(0, FALSE, "none", <<>>, FALSE, <<"quota", " ", "exceeded">>),
    AnError(0, FALSE, "none", <<>>, FALSE, <<"boom">>) }

\* the TypeError of calling startsWith on a number
TypeError == AnError(0, FALSE, "none", <<>>, FALSE, <<"not", " ", "a", " ", "function">>)

\* isRetryable(error) throws: error.code is a number, on which the default
\* case calls error.code.startsWith
IsRetryableThrows(error) == error.status = 0 /\ error.codeType = "number"

\* the mutant takes every error for retryable
AlwaysRetryable(error) == TRUE

\* isRetryable(error)
IsRetryable(error) ==
  IF error.status # 0 THEN error.status \in RETRYABLE_ERROR_CODES
  ELSE IF error.codeType # "none"
  THEN CASE error.code \in {<<"E", "CONNRESET">>, <<"E", "TIMEDOUT">>,
                            <<"E", "SOCKETTIMEDOUT">>, <<"E", "NOTFOUND">>,
                            <<"E", "CONNREFUSED">>} -> TRUE
         [] error.code \in {<<"INVALID_ARGUMENT">>, <<"NOT_FOUND">>,
                            <<"PERMISSION_DENIED">>} -> FALSE
         [] OTHER -> StartsWith(error.code, "E")
  ELSE \/ Includes(error.message, <<"quota">>)
       \/ Includes(error.message, <<"rate", " ", "limit">>)
       \/ Includes(error.message, <<"timeout">>)

\* an error thrown as it is: it has no originalError
Unformatted(error) ==
  [shape |-> "raw", originalError |-> None, self |-> Some(error)]

\* formatError(error): a new error that carries the original, or the
\* original itself when its format is unknown
FormatError(error) ==
  IF error.status # 0 /\ error.data
  THEN [shape |-> "status", originalError |-> Some(error), self |-> None]
  ELSE IF error.codeType # "none" /\ error.errors
  THEN [shape |-> "code", originalError |-> Some(error), self |-> None]
  ELSE Unformatted(error)

RECURSIVE Pow(_, _)
Pow(b, n) == IF n = 0 THEN 1 ELSE b * Pow(b, n - 1)

\* calculateRetryDelay(retries); random is Math.random() in thousandths
CalculateRetryDelay(retries, random) ==
  LET baseDelay == retryDelayMs * Pow(retryBackoffFactor, retries)
  IN  (10000 * baseDelay + (3 * random) * baseDelay) \div 10000

\* the outcome of the i-th call of fn
OutcomeAt(fn, i) == IF i <= Len(fn) THEN fn[i] ELSE Returns

\* the mutant sleeps before it throws
ThrownAfterDelay(e) ==
  [calls |-> 1, delays |-> <<retryDelayMs>>, thrown |-> TRUE, error |-> e]
\* withRetry throws e after one call of fn
Thrown(e) == [calls |-> 1, delays |-> <<>>, thrown |-> TRUE, error |-> e]

\* the mutant allows one more retry
ExhaustedLate(retries) == retries > maxRetries
\* retries >= this.maxRetries
Exhausted(retries) == retries >= maxRetries

\* withRetry after sleep(delay): the result r of the recursive call
AfterSleep(r, delay) ==
  [r EXCEPT !.calls = @ + 1, !.delays = <<delay>> \o @]

\* withRetry(fn, retries)
RECURSIVE WithRetry(_, _, _)
WithRetry(fn, retries, random) ==
  IF ~OutcomeAt(fn, retries + 1).fails
  THEN [calls |-> 1, delays |-> <<>>, thrown |-> FALSE, error |-> None]
  ELSE IF Exhausted(retries) THEN Thrown(FormatError(OutcomeAt(fn, retries + 1)))
  ELSE IF IsRetryableThrows(OutcomeAt(fn, retries + 1))
  THEN Thrown(Unformatted(TypeError))
  ELSE IF ~IsRetryable(OutcomeAt(fn, retries + 1))
  THEN Thrown(FormatError(OutcomeAt(fn, retries + 1)))
  ELSE AfterSleep(WithRetry(fn, retries + 1, random),
                  CalculateRetryDelay(retries, random))

\* the operations: up to maxRetries + 1 outcomes
RECURSIVE Scripts(_)
Scripts(n) ==
  IF n = 0 THEN {<<>>}
  ELSE Scripts(n - 1)
         \cup {Append(fn, o) : fn \in Scripts(n - 1), o \in Errors \cup {Returns}}

\* Math.random() at its least and at its most, in thousandths
Randoms == {0, 999}

\* a caller runs fn under the retry policy; last is what happened.  The
\* policy keeps nothing between calls, so a behaviour makes one call
WithRetryCall ==
  /\ last.kind = "none"
  /\ \E fn \in Scripts(maxRetries + 1), random \in Randoms :
    \E r \in {WithRetry(fn, 0, random)} :
      /\ last' = [kind |-> "withRetry", fn |-> fn, calls |-> r.calls,
                  delays |-> r.delays, thrown |-> r.thrown, error |-> r.error]
      /\ UNCHANGED <<context, sheets, cache, now, scn, written, got, svc, flight, sm>>

NextRetry == WithRetryCall

SpecRetry == Init /\ [][NextRetry]_vars

(***************************************************************************)
(* Properties of the dialogue, checked under Spec.                         *)
(***************************************************************************)
StateNames == {RegisteredStates[i] : i \in 1..Len(RegisteredStates)}
FlowStates == {ENTERING_STATE, MARKING_TASKS, ADDING_TASKS, ENTERING_COMMENT}

IsTransitionStep(e) == e[1] \in {"exit", "set", "save", "enter"}
TransitionEvents == SelectSeq(last.events, IsTransitionStep)
Logged(e) == \E i \in 1..Len(last.events) : last.events[i] = e
Attempted(msg) == \E i \in 1..Len(last.sends) : last.sends[i].msg = msg
Delivered == \A i \in 1..Len(last.sends) : last.sends[i].ok

\* the commands a state's handleMessage has a case for
Recognises(s, c) ==
  CASE s = NONE -> c \in {T_start, T_help, T_report, T_stats}
    [] s = ENTERING_STATE -> c = T_cancel
    [] s = MARKING_TASKS -> c \in {T_done, T_cancel}
    [] s = ADDING_TASKS -> c \in {T_done, T_skip, T_cancel}
    [] s = ENTERING_COMMENT -> c \in {T_skip, T_submit, T_cancel}

IsCommand == last.kind = "message" /\ StartsWith(last.text, "/")

\* the number of tasks in a cell of a reports row, as getUserReports splits it
TaskCount(cell) == IF cell = <<>> THEN 0 ELSE Len(Split(cell, ";"))

\* C1: after the reference dialogue, run from idle on an empty store with
\* nothing failing, the store holds exactly one report row, with score 7, two
\* completed tasks, one planned task and an empty comment, and the session is
\* in none without a draft.
C1_ScenarioA ==
  scn = Len(Scenario) =>
    /\ Len(sheets.Reports) = 1
    /\ sheets.Reports[1][4] = T_7
    /\ TaskCount(sheets.Reports[1][5]) = 2
    /\ TaskCount(sheets.Reports[1][6]) = 1
    /\ sheets.Reports[1][7] = <<>>
    /\ context.state = NONE
    /\ context.weeklyReport = None

\* C2: when the handler returned a state name other than the current one,
\* the engine did exit(old), set the name, saved, enter(new), in this order,
\* and the session carries the new name; when it returned null or the current
\* name, or did not return, none of the four steps happened.
C2_TransitionOrder ==
  IF last.ret \in StateNames /\ last.ret # last.from
  THEN /\ TransitionEvents = << <<"exit", last.from>>, <<"set", last.ret>>,
                                <<"save", last.ret>>, <<"enter", last.ret>> >>
       /\ context.state = last.ret
  ELSE TransitionEvents = <<>>

C2_Witness ==
  /\ last.from = ENTERING_STATE /\ last.ret = MARKING_TASKS
  /\ Len(TransitionEvents) = 4 /\ context.state = MARKING_TASKS

\* C3: for a text that starts with '/', the first thing the engine does is
\* call the current state's handleMessage; when the current state has a case
\* for the command, no canHandleCommand and no other state's handleMessage
\* is called, and the session is in none only if it was there or the handler
\* itself returned none.
C3_CurrentStateFirst ==
  IsCommand =>
    /\ Len(last.events) > 0 /\ last.events[1] = <<"handle", last.from>>
    /\ Recognises(last.from, FirstWord(Trim(last.text))) =>
         /\ \A i \in 1..Len(last.events) :
              /\ last.events[i][1] # "can"
              /\ last.events[i][1] = "handle" => last.events[i][2] = last.from
         /\ context.state = NONE => (last.from = NONE \/ last.ret = NONE)

C3_Witness ==
  /\ IsCommand /\ last.text = T_done /\ last.from = ADDING_TASKS
  /\ last.events = << <<"handle", ADDING_TASKS>> >>
  /\ last.ret = "null" /\ context.state = ADDING_TASKS

\* C4: when a command reaches a state other than none that has no case for
\* it, and every message is delivered, the engine moved the session to none
\* (by interception when NoneState.canHandleCommand accepts the command, by
\* the forced reset when no state does) and dispatched the message there.
C4_Interception ==
  (/\ IsCommand /\ last.from \in {MARKING_TASKS, ADDING_TASKS, ENTERING_COMMENT}
   /\ ~Recognises(last.from, FirstWord(Trim(last.text))) /\ Delivered) =>
    /\ Logged(<<"set", NONE>>)
    /\ Logged(<<"handle", NONE>>)
    /\ context.state = NONE

\* C5: when a state's handleMessage raised, the session (state name, draft,
\* phase) is as it was before the dispatch, the failure notice was sent, and
\* nothing left the engine's handleMessage.
HandlerRaised == last.kind = "message" /\ last.caught /\ last.ret = "undefined"

C5_PreErrorState ==
  HandlerRaised => last.kept /\ Attempted("error_notice") /\ ~last.escaped

\* C6: in entering_state, for the inputs 15, 0 and -3: no transition, the
\* session (state name and whole draft) as before, the rejection message is
\* what the handler sends, and the handler returns null once that message is
\* delivered.
InvalidScores == {T_15, T_0, T_minus3}

C6_RejectOutOfRange ==
  (last.kind = "message" /\ last.from = ENTERING_STATE
   /\ last.text \in InvalidScores) =>
    /\ last.kept /\ TransitionEvents = <<>>
    /\ context.state = ENTERING_STATE
    /\ Len(last.sends) > 0 /\ last.sends[1].msg = "reject_score"
    /\ last.sends[1].ok => last.ret = "null"

C6_Witness ==
  /\ last.kind = "message" /\ last.from = ENTERING_STATE /\ last.text = T_15
  /\ last.sends = << [msg |-> "reject_score", ok |-> TRUE] >>
  /\ last.ret = "null" /\ IsSome(context.weeklyReport)
  /\ Get(context.weeklyReport).state = 0

\* C7, as stated: the second of two equal in-flow commands, the first of
\* which changed the state to S', is handled by S' alone and leaves the
\* session in S'.
HandledByCurrentOnly ==
  /\ Len(last.events) > 0 /\ last.events[1] = <<"handle", last.from>>
  /\ \A i \in 1..Len(last.events) :
       /\ last.events[i][1] # "can"
       /\ last.events[i][1] = "handle" => last.events[i][2] = last.from

SkipSubmitted ==
  /\ last.text = T_skip /\ last.from = ENTERING_COMMENT
  /\ last.ret = NONE /\ context.state = NONE
  /\ Len(last.saves) = 1 /\ last.wrote /\ context.weeklyReport = None

C8_CancelDiscards ==
  (last.kind = "message" /\ last.text = T_cancel /\ last.from \in FlowStates) =>
    /\ context.weeklyReport = None
    /\ context.state = NONE
    /\ ~last.wrote

\* C9: every call of saveReport is for a draft with a score in 1..10 whose
\* list of unfinished tasks and list of plans were both opened and closed by
\* /done or /skip.
C9_SubmitOnlyComplete ==
  \A i \in 1..Len(last.saves) :
    /\ IsSome(last.saves[i])
    /\ Get(last.saves[i]).state \in minStateValue..maxStateValue
    /\ IsSome(Get(last.saves[i]).incompleteTasks)
    /\ IsSome(Get(last.saves[i]).nextWeekPlans)

(***************************************************************************)
(* Properties of the cache, checked under SpecCache.                       *)
(***************************************************************************)
\* the last get found a set in force, made Elapsed ms before it
Asked == IsSome(got) /\ IsSome(Get(got).set)
Elapsed == Get(got).at - Get(Get(got).set).at
TtlMs == Get(Get(got).set).ttl * 1000
Hit == Get(got).value = Some(Get(Get(got).set).value)
Miss == Get(got).value = None

\* C10, as stated: get returns the value when less than ttl has passed
\* since the set, and misses when ttl or more has passed.
C10_MissAtTtl == Asked => IF Elapsed < TtlMs THEN Hit ELSE Miss

\* C10, amended: get returns the value when at most ttl has passed since the
\* set, and misses when more than ttl has passed; without a set in force it
\* misses.
C10_HitThroughTtl ==
  IsSome(got) =>
    IF IsSome(Get(got).set) THEN (IF Elapsed <= TtlMs THEN Hit ELSE Miss)
    ELSE Miss

C10_Witness == Asked /\ Elapsed = TtlMs /\ Hit


(***************************************************************************)
(* Properties of the report store, checked under SpecStore.                *)
(***************************************************************************)
\* the ranges the store's operations are called with
StoreRanges == ColumnRanges \cup {RowRange(UsersSheet, n) : n \in 1..MaxRows}

\* cache.get(key) at time t reports a miss
MissIn(c, t, range) == ~IsSome(CacheGet(c, t, CacheKeyOf(range)).value)

SuccessfulWrite(o) == o.kind \in {"updateData", "appendData"} /\ o.ok

C12_FreshReads ==
  last.kind = "getData" /\ last.ok => last.val = last.rowsBefore



\* the cache holds the rows under the range's key, to expire 300 s from now
StoredFor300s(range, rows) ==
  /\ CacheKeyOf(range) \in DOMAIN cache
  /\ cache[CacheKeyOf(range)] = [value |-> rows, expires |-> now + 300 * 1000]

\* C13: on an initialized service, getData(range) returns the cached rows
\* without a remote read when cache.get gives an entry for the range's key
\* and forceRefresh is false; otherwise it makes the remote read and, when
\* that returns, stores its rows under the key for 300 s and returns them
C13_CacheFirst ==
  last.kind = "getData" /\ svc.initialized =>
    IF IsSome(last.cachedBefore) /\ ~last.force
    THEN /\ last.ok /\ last.remote = 0
         /\ last.val = Get(last.cachedBefore)
         /\ last.cacheKept
    ELSE /\ last.remote = 1
         /\ last.ok => /\ last.val = last.rowsBefore
                       /\ StoredFor300s(last.range, last.rowsBefore)

\* a getData is answered from the cache, with rows, after the clock advanced
C13_Witness ==
  /\ last.kind = "getData" /\ ~last.force /\ IsSome(last.cachedBefore)
  /\ last.val # <<>> /\ now > 0 /\ last.remote = 0



(***************************************************************************)
(* Properties of the retry policy, checked under SpecRetry.                *)
(***************************************************************************)
\* isRetryable answers for the error, and says yes or no
ClassifiedRetryable(e) == e.fails /\ ~IsRetryableThrows(e) /\ IsRetryable(e)
ClassifiedFatal(e) == e.fails /\ ~IsRetryableThrows(e) /\ ~IsRetryable(e)

\* fn fails with a retryable error on every attempt
AlwaysRetryableFailure(fn) ==
  /\ Len(fn) = maxRetries + 1
  /\ \A i \in 1..Len(fn) : ClassifiedRetryable(fn[i])

\* C14: for an operation that fails with a retryable error on every
\* attempt, withRetry calls the operation maxRetries + 1 times, sleeping
\* between the calls, and then throws
C14_ExhaustsRetries ==
  last.kind = "withRetry" /\ AlwaysRetryableFailure(last.fn) =>
    /\ last.calls = maxRetries + 1
    /\ Len(last.delays) = maxRetries
    /\ last.thrown

C14_Witness ==
  /\ last.kind = "withRetry" /\ AlwaysRetryableFailure(last.fn)
  /\ last.thrown /\ last.calls = 4

\* C15: for an operation whose first failure is classified fatal, withRetry
\* calls the operation once and throws without any sleep
C15_FatalAtOnce ==
  last.kind = "withRetry" /\ Len(last.fn) > 0 /\ ClassifiedFatal(last.fn[1]) =>
    /\ last.calls = 1
    /\ last.delays = <<>>
    /\ last.thrown

C15_Witness ==
  /\ last.kind = "withRetry" /\ Len(last.fn) > 1
  /\ ClassifiedFatal(last.fn[1]) /\ ~last.fn[2].fails
  /\ last.thrown /\ last.calls = 1

\* the signals the policy is to retry on: a rate limit or quota, a
\* transient 5xx status, a network-level connection error or timeout
RateLimitSignal(e) ==
  \/ e.status = 429
  \/ Includes(e.message, <<"quota">>)
  \/ Includes(e.message, <<"rate", " ", "limit">>)
TransientStatus(e) == e.status \in {500, 502, 503, 504}
NetworkSignal(e) ==
  \/ e.codeType = "string"
       /\ e.code \in {<<"E", "CONNRESET">>, <<"E", "TIMEDOUT">>,
                      <<"E", "SOCKETTIMEDOUT">>, <<"E", "NOTFOUND">>,
                      <<"E", "CONNREFUSED">>}
  \/ Includes(e.message, <<"timeout">>)

\* C16: the classifier answers retryable exactly for an error with one of
\* these signals and fatal for every other error: withRetry calls the
\* operation a second time exactly when the first error has such a signal
C16_Classifier ==
  last.kind = "withRetry" /\ Len(last.fn) > 0 /\ last.fn[1].fails =>
    (last.calls > 1 <=>
       RateLimitSignal(last.fn[1]) \/ TransientStatus(last.fn[1])
         \/ NetworkSignal(last.fn[1]))

\* C17: every error withRetry throws has the normalized shape and carries
\* the error the operation threw last as its originalError
C17_Normalized ==
  last.kind = "withRetry" /\ last.thrown =>
    /\ last.error.shape # "raw"
    /\ last.error.originalError = Some(last.fn[last.calls])



\* the operation made its remote call and the call failed
RemoteFailed(o) ==
  /\ o.kind \in {"getData", "updateData", "appendData"}
  /\ o.remote = 1 /\ o.rFail = 1

\* C18 as stated: when the remote call of getData, updateData or appendData
\* fails, the operation raises and the cache is as it was before
C18_CacheUnchanged ==
  RemoteFailed(last) => ~last.ok /\ last.cacheKept

\* C18: when the remote call fails, the operation raises, no entry is
\* stored and no live entry is removed: the cache is as it was, but for an
\* expired entry of the range's key, which the lookup of a getData without
\* forceRefresh has dropped
C18_FailureKeepsLiveCache ==
  RemoteFailed(last) =>
    /\ ~last.ok
    /\ IF last.kind = "getData" /\ ~last.force THEN last.cachePurged
       ELSE last.cacheKept

\* the remote read of a getData fails after its lookup dropped an expired
\* entry
C18_Witness ==
  /\ RemoteFailed(last) /\ last.kind = "getData"
  /\ ~last.ok /\ ~last.cacheKept /\ last.cachePurged



StoreOperations == {"getData", "updateData", "appendData"}

\* C19: a store operation on an uninitialized service runs the probe; once
\* the flag is set, no initialize call and no store operation probes again,
\* and the client and the flag stay as they are
C19_InitializeOnce ==
  [][/\ ~svc.initialized /\ last'.kind \in StoreOperations => last'.probed
     /\ svc.initialized =>
          /\ svc' = svc
          /\ last'.kind \in StoreOperations \cup {"initialize"} => ~last'.probed]_vars

\* initialize is called on a service that is initialized
C19_Witness ==
  /\ svc.initialized /\ svc.client = 1
  /\ last.kind = "initialize" /\ ~last.probed

(***************************************************************************)
(* Two webhook requests in flight.  router.post awaits handleUpdate for    *)
(* each request and nothing orders the requests of one user; getContext    *)
(* hands every update of the user the same context object.  A handler runs *)
(* until it waits for Telegram or for the spreadsheet, and another handler *)
(* may run while it waits.  A step of an update below is one such wait     *)
(* answered, with the code that follows it up to the next wait; a look-up  *)
(* that the cache answers is no wait.  The updates are two /submit in the  *)
(* comment state; nothing fails, and the service's first probe is answered *)
(* before anything else happens.  flight.h[p] is the update p: pc the call *)
(* it waits for, m its own part of the machine, row the statistics row it  *)
(* is about to write; flight.serial is the session and the spreadsheet the *)
(* two updates leave when one is handled after the other.                  *)
(***************************************************************************)
Handlers == {1, 2}

\* the update after out, on the state out has left
NextUpdate(out) ==
  [out EXCEPT !.ncalls = 0, !.nremote = 0, !.sends = <<>>, !.events = <<>>,
              !.saves = <<>>, !.raised = FALSE, !.caught = FALSE,
              !.escaped = FALSE, !.ret = "undefined", !.val = <<>>,
              !.probed = FALSE, !.thrown = FALSE, !.result = "none"]

\* handleUpdate awaited for text1, then for text2
Serial(text1, text2) ==
  HandleUpdate(NextUpdate(HandleUpdate(Machine({}, 0), "message", text1)),
               "message", text2)

\* the update p goes on, on the session, spreadsheet, cache and service as
\* they are now
Resume(p) ==
  [Get(flight.h[p].m) EXCEPT !.ctx = context, !.sheets = sheets, !.cache = cache,
                             !.svc = svc, !.now = now]

\* the update waits for the call pc; what it shares is in the state
Waiting(pc, m, row) ==
  [pc |-> pc,
   m |-> Some([m EXCEPT !.ctx = NewContext, !.sheets = [Reports |-> <<>>, Users |-> <<>>],
                        !.cache = EmptyCache, !.svc = NewService, !.now = 0]),
   row |-> row,
   ctx |-> m.ctx, sheets |-> m.sheets, cache |-> m.cache, svc |-> m.svc]

\* the try block of _submitReport has ended in a: its outcome goes back
\* through handleMessage of the comment state and of the engine
Finish(a) ==
  Waiting("done",
          Catch(FollowReturn(
                  InterceptCommand(SubmitOutcome(a), ENTERING_COMMENT, T_submit),
                  ENTERING_COMMENT),
                "error_notice"),
          None)

\* handleUpdate up to the first send of _submitReport
BeginSubmit ==
  Waiting("sending",
          Log(InitializeState(Machine({}, 0)), <<"handle", ENTERING_COMMENT>>),
          None)

\* the draft saveReport was called with
SavedDraft(m) == Get(m.saves[Len(m.saves)])

\* cache.get(key) answers getData(range)
Cached(m, range) == IsSome(CacheGet(m.cache, m.now, CacheKeyOf(range)).value)

\* the preview has been sent: the draft is deleted, NONE returned
AfterPreview(m) == Finish(Tg(m, "preview"))

\* the notice has been sent: context.weeklyReport.formatForDisplay() throws
\* when the draft is gone
PreviewOrThrow(a) ==
  IF ~HasDraft(a) THEN Finish(Raise(a)) ELSE Waiting("preview", a, None)

AfterSavedOk(m) == PreviewOrThrow(Tg(m, "saved_ok"))

\* the statistics row has been written: saveReport returns
AfterWrite(m, row) ==
  Waiting("saved_ok", PutUserStatsRow(m, SavedDraft(m).userId, Get(row)), None)

\* the rows of A:I have arrived: findIndex, then the write is asked for
AfterRows(m, row) ==
  Waiting("write", GetData(m, ColumnsRange(UsersSheet, "A:I"), FALSE), row)

\* updateUserStats goes on to getData('Users!A:I')
RowsOrWait(g, row) ==
  IF Cached(g, ColumnsRange(UsersSheet, "A:I")) THEN AfterRows(g, row)
  ELSE Waiting("rows", g, row)

\* getUserStats has answered in g: the row to write is built
StatsAnswered(g, r) ==
  RowsOrWait(g, Some(<<UserStatsRow(UpdatedUserStats(g, r.userId, ReportCounts(r)))>>))

\* the rows of A:G have arrived
AfterStats(m) == StatsAnswered(GetUserStats(m, SavedDraft(m).userId), SavedDraft(m))

\* saveReport goes on to updateUserStats, getUserStats, getData('Users!A:G')
StatsOrWait(a) ==
  IF Cached(a, ColumnsRange(UsersSheet, "A:G")) THEN AfterStats(a)
  ELSE Waiting("stats", a, None)

\* the report's row has been appended
AfterAppend(m) ==
  StatsOrWait(AppendData(m, ColumnsRange(ReportsSheet, "A:G"),
                         <<ReportRow(SavedDraft(m))>>))

\* saveReport after _ensureInitialized in b: reading report.id throws
\* without a draft; else appendData is asked for
AppendOrThrow(b) ==
  IF ~IsSome(b.saves[Len(b.saves)]) THEN Finish(Raise(b))
  ELSE Waiting("append", b, None)

\* the first message has been sent in a: saveReport(context.weeklyReport)
SaveCalled(a) ==
  AppendOrThrow(EnsureInitialized([a EXCEPT !.saves = Append(@, a.ctx.weeklyReport)]))

AfterSending(m) == SaveCalled(Tg(m, "sending"))

\* the call the update waited for is answered
Answered(pc, m, row) ==
  CASE pc = "sending" -> AfterSending(m)
    [] pc = "append" -> AfterAppend(m)
    [] pc = "stats" -> AfterStats(m)
    [] pc = "rows" -> AfterRows(m, row)
    [] pc = "write" -> AfterWrite(m, row)
    [] pc = "saved_ok" -> AfterSavedOk(m)
    [] pc = "preview" -> AfterPreview(m)

InFlight(p) == flight.h[p].pc \notin {"idle", "done"}

\* a /submit arrives in the comment state: the first while no update is in
\* flight, the second while the first is
Deliver(p) ==
  /\ flight.h[p].pc = "idle"
  /\ IF p = 1
     THEN /\ flight.h[2].pc = "idle"
          /\ Active
          /\ CurrentStateName(context) = ENTERING_COMMENT
     ELSE InFlight(1)
  /\ \E w \in {BeginSubmit} :
       flight' = [h |-> [flight.h EXCEPT ![p] = [pc |-> w.pc, m |-> w.m, row |-> w.row]],
                  serial |-> IF p = 1
                             THEN Some([ctx |-> Serial(T_submit, T_submit).ctx,
                                        sheets |-> Serial(T_submit, T_submit).sheets])
                             ELSE flight.serial]
  /\ UNCHANGED <<context, sheets, cache, now, last, scn, written, got, svc, sm>>

\* the call an update waits for is answered and the update runs on
Proceed(p) ==
  /\ InFlight(p)
  /\ \E w \in {Answered(flight.h[p].pc, Resume(p), flight.h[p].row)} :
       /\ flight' = [flight EXCEPT !.h[p] = [pc |-> w.pc, m |-> w.m, row |-> w.row]]
       /\ context' = w.ctx
       /\ sheets' = w.sheets
       /\ cache' = w.cache
       /\ svc' = w.svc
  /\ UNCHANGED <<now, last, scn, written, got, sm>>

\* an update handled alone, as in Spec
Alone == flight = NoFlight /\ Message

NextRace == Alone \/ (\E p \in Handlers : Deliver(p)) \/ (\E p \in Handlers : Proceed(p))

SpecRace == Init /\ [][NextRace]_vars

\* C20: when two /submit of the user have been handled with the second
\* delivered while the first was in flight, the session (state name, draft)
\* and the spreadsheet are those that handling the two one after the other
\* leaves, so the draft has one record
BothHandled == flight.h[1].pc = "done" /\ flight.h[2].pc = "done"
C20_Serialized ==
  BothHandled =>
    /\ context = Get(flight.serial).ctx
    /\ sheets = Get(flight.serial).sheets

(***************************************************************************)
(* The session manager on its own.  A context object is a record: userId, *)
(* ctx (the state name, draft and phase, as above), data (the keys of     *)
(* context.data), and whether it has the fields telegram and save.  The    *)
(* hooks are the environment's: saveSession keeps what it is given or      *)
(* throws, loadSession answers what saveSession last kept for the user,    *)
(* some time after it was called.  A new process starts with a new         *)
(* manager over what the hooks have kept.                                  *)
(***************************************************************************)
MaxContexts == 2

\* the user ids the callers pass: a number or a string
UserIds ==
  {[type |-> "number", digits |-> "1"], [type |-> "string", digits |-> "1"],
   [type |-> "string", digits |-> "2"]}

\* String(userId)
String(userId) == userId.digits

\* _createContext(userId)
CreateContext(userId) ==
  [userId |-> userId, ctx |-> NewContext, data |-> {},
   telegram |-> FALSE, save |-> FALSE]

\* the mutant never finds the user in memory
NotResident(s, u) == None

\* this.sessions.has(userId) and this.sessions.get(userId)
Resident(s, u) == s.sessions[u]

\* getContext for a user who is not in memory, up to the call of loadSession
CallLoadSession(s, u) ==
  [s EXCEPT !.loads = @ + 1,
            !.waiting = Append(@, [user |-> u, before |-> s.sessions[u]])]

\* getContext after loadSession has answered value: the context is the one
\* loaded or a new one, gets telegram and save, and is put in memory
ContextLoaded(s, u, value) ==
  LET c == IF IsSome(value) THEN Get(value) ELSE CreateContext(u)
      heap == Append(s.heap, [c EXCEPT !.telegram = TRUE, !.save = TRUE])
  IN  [s EXCEPT !.heap = heap, !.sessions[u] = Some(Len(heap))]

\* the mutant hands the hook the context itself
ContextItself(c) == c

\* the copy saveContext makes for the hook: { ...context } without the
\* fields telegram and save
ContextForSave(c) == [c EXCEPT !.telegram = FALSE, !.save = FALSE]

\* the mutant keeps one session for all users
SaveContextOfAll(s, u, id, kept) ==
  [s EXCEPT !.sessions = [v \in DOMAIN @ |-> Some(id)],
            !.stored[u] = IF kept THEN Some(ContextForSave(s.heap[id])) ELSE @]

\* saveContext(userId, context) for the context object at place id; kept
\* is whether the saveSession hook kept the copy or threw
SaveContext(s, u, id, kept) ==
  [s EXCEPT !.sessions[u] = Some(id),
            !.stored[u] = IF kept THEN Some(ContextForSave(s.heap[id])) ELSE @]

\* clearContext(userId): the hook is given null
ClearContext(s, u, kept) ==
  [s EXCEPT !.sessions[u] = None, !.stored[u] = IF kept THEN None ELSE @]

Without1(seq, i) == SubSeq(seq, 1, i - 1) \o SubSeq(seq, i + 1, Len(seq))

SessionFrame == <<context, sheets, cache, now, scn, written, got, svc, flight>>

\* getContext(userId) is called
MGetContext ==
  \E userId \in UserIds :
    \E u \in {String(userId)} :
      IF IsSome(Resident(sm, u))
      THEN /\ last' = [kind |-> "getContext", user |-> u, before |-> sm.sessions[u],
                       called |-> FALSE, found |-> FALSE,
                       ret |-> Get(Resident(sm, u)), loads |-> sm.loads,
                       held |-> sm.sessions[u]]
           /\ UNCHANGED <<sm, SessionFrame>>
      ELSE /\ Len(sm.heap) + Len(sm.waiting) < MaxContexts
           /\ sm' = CallLoadSession(sm, u)
           /\ last' = [kind |-> "loadSession", user |-> u]
           /\ UNCHANGED SessionFrame

\* loadSession answers a call of getContext, which returns
MLoaded ==
  \E i \in 1..Len(sm.waiting) :
    \E w \in {sm.waiting[i]} :
      \E s \in {ContextLoaded([sm EXCEPT !.waiting = Without1(@, i)],
                              w.user, sm.stored[w.user])} :
        /\ sm' = s
        /\ last' = [kind |-> "getContext", user |-> w.user, before |-> w.before,
                    called |-> TRUE, found |-> IsSome(sm.stored[w.user]),
                    ret |-> Get(s.sessions[w.user]), loads |-> s.loads,
                    held |-> sm.sessions[w.user]]
        /\ UNCHANGED SessionFrame

\* initializeState(context) for a context a handler holds
MInitializeState ==
  \E id \in 1..Len(sm.heap), kept \in BOOLEAN :
    \E c \in {sm.heap[id]} :
      /\ c.ctx.state = "null" \/ ~HasState(c.ctx.state)
      /\ sm' = SaveContext([sm EXCEPT !.heap[id].ctx = InitializeState(c).ctx],
                           c.userId, id, kept)
      /\ last' = [kind |-> "saveContext", user |-> c.userId, id |-> id,
                  passed |-> ContextForSave(sm'.heap[id]), kept |-> kept]
      /\ UNCHANGED SessionFrame

\* a transition for a context a handler holds: context.state is set and
\* context.save() called
MTransition ==
  \E id \in 1..Len(sm.heap), kept \in BOOLEAN, newStateName \in {NONE, ENTERING_STATE} :
    \E c \in {sm.heap[id]} :
      /\ c.ctx.state # newStateName
      /\ sm' = SaveContext([sm EXCEPT !.heap[id].ctx.state = newStateName],
                           c.userId, id, kept)
      /\ last' = [kind |-> "saveContext", user |-> c.userId, id |-> id,
                  passed |-> ContextForSave(sm'.heap[id]), kept |-> kept]
      /\ UNCHANGED SessionFrame

\* _startNewReport for a context a handler holds, entered in the state of
\* the score without a draft: context.weeklyReport is set to a new report
\* of context.userId and context.save() called
MStartNewReport ==
  \E id \in 1..Len(sm.heap), kept \in BOOLEAN :
    \E c \in {sm.heap[id]} :
      /\ c.ctx.state = ENTERING_STATE /\ c.ctx.weeklyReport = None
      /\ sm' = SaveContext([sm EXCEPT !.heap[id].ctx.weeklyReport =
                                        Some(NewWeeklyReport(c.userId))],
                           c.userId, id, kept)
      /\ last' = [kind |-> "saveContext", user |-> c.userId, id |-> id,
                  passed |-> ContextForSave(sm'.heap[id]), kept |-> kept]
      /\ UNCHANGED SessionFrame

\* clearContext(userId) is called
MClearContext ==
  \E userId \in UserIds, kept \in BOOLEAN :
    /\ sm' = ClearContext(sm, String(userId), kept)
    /\ last' = [kind |-> "clearContext", user |-> String(userId)]
    /\ UNCHANGED SessionFrame

\* the process starts again: a new manager, the hooks' store as it was
MRestart ==
  /\ sm.heap # <<>>
  /\ sm' = [NewSessionManager EXCEPT !.stored = sm.stored]
  /\ last' = [kind |-> "restart"]
  /\ UNCHANGED SessionFrame

NextSession ==
  \/ MGetContext \/ MLoaded \/ MInitializeState \/ MTransition
  \/ MStartNewReport \/ MClearContext \/ MRestart

SpecSession == Init /\ [][NextSession]_vars

\* the context is as _createContext makes it: empty data, no draft, a state
\* name that resolves to the initial state, and initializeState sets it
FreshContext(c) ==
  /\ c.ctx = NewContext /\ c.data = {}
  /\ CurrentStateName(c.ctx) = NONE
  /\ InitializeState(c).ctx.state = NONE

\* C21: a getContext(u) called while a context of u is in memory returns
\* that context and does not call loadSession; called while none is, it
\* calls loadSession, returns what the hook had stored and, when the hook
\* had nothing, a fresh context with empty data that resolves to None
C21_GetContext ==
  last.kind = "getContext" =>
    IF IsSome(last.before)
    THEN ~last.called /\ Some(last.ret) = last.before /\ sm.sessions[last.user] = last.before
    ELSE /\ last.called
         /\ sm.heap[last.ret].telegram /\ sm.heap[last.ret].save
         /\ IF last.found
            THEN ContextForSave(sm.heap[last.ret]) = Get(sm.stored[last.user])
            ELSE FreshContext(sm.heap[last.ret])
C21_Witness ==
  /\ last.kind = "getContext" /\ IsSome(last.before) /\ ~last.called
  /\ sm.loads > 0
  /\ sm.heap[last.ret].ctx.state # "null"

\* C22: the object saveContext passes to the saveSession hook, and so
\* whatever the hook has kept, has neither the field telegram nor the
\* field save, while the context in memory, which is the one that was
\* saved, has both
C22_HandlesNotSaved ==
  /\ \A u \in SessionUsers :
       IsSome(sm.stored[u]) => ~Get(sm.stored[u]).telegram /\ ~Get(sm.stored[u]).save
  /\ last.kind = "saveContext" =>
       /\ ~last.passed.telegram /\ ~last.passed.save
       /\ sm.sessions[last.user] = Some(last.id)
       /\ sm.heap[last.id].telegram /\ sm.heap[last.id].save
C22_Witness ==
  /\ last.kind = "saveContext" /\ last.kept
  /\ sm.stored[last.user] = Some(last.passed)
  /\ sm.heap[last.id].telegram /\ sm.heap[last.id].save

\* the update entered a state whose enter found no draft and told the user
EnteredWithoutDraft ==
  \E i \in 1..Len(last.sends) :
    last.sends[i].msg = "report_not_found" /\ last.sends[i].ok

\* C23: when a task-entry state or the comment state is entered while the
\* session holds no draft, the user is told and the update ends with the
\* session in the initial state
C23_EnterWithoutDraft ==
  (last.kind \in {"message", "callback"} /\ EnteredWithoutDraft) =>
    CurrentStateName(context) = NONE

\* something failed in the update: a handler threw, a call of Telegram or
\* of the spreadsheet failed, or the session could not be loaded
FailedUpdate ==
  /\ last.kind \in {"message", "callback", "loadThrows"}
  /\ \/ last.caught \/ last.result = "false"
     \/ \E i \in 1..Len(last.sends) : ~last.sends[i].ok
     \/ \E i \in 1..Len(last.sends) : last.sends[i].msg = "save_failed"

\* one further message, delivered without a failure, ends in none
BackToNone ==
  \E text \in Commands :
    CurrentStateName(TryHandleUpdate(Machine({}, 0), "message", text, FALSE).ctx) = NONE

\* C24: nothing is thrown out of handleUpdate, whatever fails inside; after
\* a failed update the session's state name resolves to a registered state
\* and there are further messages that bring the session back to none
C24_NeverRaises ==
  /\ last.kind \in {"message", "callback", "loadThrows"} =>
       /\ ~last.thrown
       /\ last.result \in {"true", "false"}
  /\ FailedUpdate =>
       /\ last.result = "false" <=> (last.kind = "loadThrows" \/ last.escaped)
       /\ HasState(CurrentStateName(context))
       /\ BackToNone
C24_Witness ==
  /\ FailedUpdate /\ last.kind = "message" /\ last.caught
  /\ CurrentStateName(context) = MARKING_TASKS
  /\ context.weeklyReport = None

\* saveReport was called in the update and threw, and every message of the
\* update was delivered
SaveReportFailed ==
  /\ last.kind = "message" /\ last.saves # <<>>
  /\ ~Attempted("saved_ok") /\ Delivered

\* C25: when saveReport fails during submission, nothing is thrown out of
\* the comment state (the engine's catch does not run), the user is told to
\* try again, the session stays in the comment state and the draft is the
\* report that was submitted
C25_SaveFailureKeepsDraft ==
  SaveReportFailed =>
    /\ ~last.caught /\ last.ret = "null" /\ last.result = "true"
    /\ Attempted("save_failed")
    /\ last.from = ENTERING_COMMENT /\ context.state = ENTERING_COMMENT
    /\ context.weeklyReport = last.saves[1]
    /\ last.text = T_submit => last.kept
C25_Witness ==
  /\ SaveReportFailed /\ last.text = T_submit
  /\ IsSome(context.weeklyReport)
  /\ ~last.wrote
  /\ context.state = ENTERING_COMMENT

\* C26: a callback query goes to handleCallbackQuery of the current state
\* and to no other state, and no state is asked whether it can handle it;
\* the engine makes a transition (exit, set, save, enter, in this order)
\* when the handler returned a state name other than the current one, and
\* otherwise leaves the state name as it was
C26_CallbackToCurrent ==
  last.kind = "callback" =>
    /\ Len(last.events) > 0 /\ last.events[1] = <<"handle", last.from>>
    /\ \A i \in 2..Len(last.events) : last.events[i][1] \notin {"handle", "can"}
    /\ IF last.ret \in StateNames /\ last.ret # last.from
       THEN /\ TransitionEvents = << <<"exit", last.from>>, <<"set", last.ret>>,
                                     <<"save", last.ret>>, <<"enter", last.ret>> >>
            /\ context.state = last.ret
       ELSE /\ TransitionEvents = <<>>
            /\ context.state = last.from
C26_Witness ==
  /\ last.kind = "callback" /\ last.data = "report_new"
  /\ last.from = ENTERING_STATE /\ last.ret = "null"
  /\ last.events = << <<"handle", ENTERING_STATE>> >>
  /\ context.state = ENTERING_STATE /\ IsSome(context.weeklyReport)

\* a text that is no command and has more than 1000 characters arrived in
\* the comment state
LongComment ==
  /\ last.kind = "message" /\ last.from = ENTERING_COMMENT
  /\ ~StartsWith(Trim(last.text), "/")
  /\ TextLength(Trim(last.text)) > 1000

\* C27: a comment of more than 1000 characters is answered with the
\* corrective message; no transition is made, the session with its draft is
\* as before, saveReport is not called and the spreadsheet not written; and
\* the comment of every stored record has at most 1000 characters
C27_LongCommentRejected ==
  /\ LongComment =>
       /\ Attempted("comment_too_long") /\ ~Attempted("show_comment")
       /\ Delivered => (last.ret = "null" /\ ~last.caught)
       /\ TransitionEvents = <<>>
       /\ context.state = ENTERING_COMMENT
       /\ last.kept
       /\ last.saves = <<>> /\ ~last.wrote
  /\ \A i \in 1..Len(sheets.Reports) : TextLength(sheets.Reports[i][7]) <= 1000
C27_Witness ==
  /\ LongComment /\ Delivered
  /\ IsSome(context.weeklyReport)
  /\ TextLength(Get(context.weeklyReport).comment) = 1000

(***************************************************************************)
(* The reports of the users.  Callers save reports of two users and read   *)
(* them back with getUserReports and getUserStats; the spreadsheet is      *)
(* reachable.  A date is <<year, day>>, the day counted from 0 on          *)
(* 1 January; time does not go back, so a report is started on the date    *)
(* of the last stored row or later.  A saved report carries the number of  *)
(* the row it becomes in its id.  last is what the operation did: userId   *)
(* and limit its arguments, ok whether it returned, val what it returned,  *)
(* rowsBefore the rows of the Reports sheet when it was called, week the   *)
(* week number _startNewReport computed for the report, agg the            *)
(* statistics UserStats.fromReports computes of the rows.                  *)
(***************************************************************************)
\* the reports the callers save
MaxSaved == 3

ReportUsers == {<<"u", "1">>, <<"u", "2">>}
\* the completed and the planned tasks of a report
TaskLists == {<<<<>>, <<T_task>>>>, <<<<T_task, T_task>>, <<>>>>}
Limits == 0..2
Dates == {<<1, 0>>, <<1, 1>>, <<1, 7>>, <<2, 0>>}
\* startOfYear.getDay(): year 1 begins on a Sunday, year 2 on a Monday
GetDay(year) == year - 1

NotBefore(d, e) == d[1] > e[1] \/ (d[1] = e[1] /\ d[2] >= e[2])

\* Array.prototype.slice(begin): a negative begin counts from the end, and
\* -0 is 0
Slice(seq, begin) ==
  LET n == Len(seq)
      k == IF begin < 0 THEN (IF n + begin < 0 THEN 0 ELSE n + begin)
           ELSE Min(begin, n)
  IN  SubSeq(seq, k + 1, n)

\* row[i] ? row[i].split(';') : []
ListCell(row, i) ==
  IF i <= Len(row) /\ row[i] # <<>> THEN Split(row[i], ";") ELSE <<>>

\* the WeeklyReport getUserReports builds of a row
ReportOfRow(row) ==
  [id |-> row[1], userId |-> row[2], date |-> OrEmpty(TextCell(row, 3)),
   status |-> OrEmpty(TextCell(row, 4)),
   completedTasks |-> ListCell(row, 5), plannedTasks |-> ListCell(row, 6),
   comment |-> OrEmpty(TextCell(row, 7))]

\* filter(row => row[1] === userId)
RowsOfUser(rows, userId) ==
  SelectSeq(rows, LAMBDA row : Len(row) >= 2 /\ row[2] = userId)

\* getUserReports after the rows have arrived in d: filter, slice(-limit),
\* map
ReportsOfRows(d, userId, limit) ==
  IF d.raised THEN d
  ELSE LET kept == Slice(RowsOfUser(d.val, userId), 0 - limit)
       IN  [d EXCEPT !.val = [i \in 1..Len(kept) |-> ReportOfRow(kept[i])]]

\* getUserReports(userId, limit)
GetUserReports(m, userId, limit) ==
  ReportsOfRows(GetData(m, ColumnsRange(ReportsSheet, "A:G"), FALSE), userId, limit)

\* Math.round(a / b) for a >= 0 and b > 0
RoundDiv(a, b) == (2 * a + b) \div (2 * b)

\* new UserStats(data) of the report statistics: a completion rate of 0 is
\* computed of the task counts; averageState is held in tenths
NewReportStats(data) ==
  LET total == data.completedTasks + data.incompleteTasks
  IN  [data EXCEPT !.completionRate =
         IF total > 0 /\ data.completionRate = 0
         THEN RoundDiv(data.completedTasks * 100, total) ELSE @]

\* JSON.stringify of a list of strings
JsonStringify(list) == <<"[">> \o Join(list, ",") \o <<"]">>

\* JSON.parse(cell || '[]'): ok when the text is JSON (a list in brackets,
\* or a number), len the length of the array it holds, -1 when it holds no
\* array
JsonParse(cell) ==
  LET text == IF cell = <<>> THEN <<"[", "]">> ELSE cell
      inner == SubSeq(text, 2, Len(text) - 1)
  IN  IF Len(text) >= 2 /\ text[1] = "[" /\ text[Len(text)] = "]"
      THEN [ok |-> TRUE, len |-> IF inner = <<>> THEN 0 ELSE Len(Split(inner, ","))]
      ELSE [ok |-> \A i \in 1..Len(text) : text[i] \in Digits, len |-> -1]

\* Array.isArray(parsed): the length is added to the field
AddLength(acc, field, parsed) ==
  IF parsed.len >= 0 THEN [acc EXCEPT ![field] = @ + parsed.len] ELSE acc

\* the body of the try of fromReports for a row: nothing more is added once
\* a JSON.parse has thrown
CountTasks(acc, row) ==
  LET completed == JsonParse(row[6])
      incomplete == JsonParse(row[7])
  IN  IF ~completed.ok THEN acc
      ELSE IF ~incomplete.ok THEN AddLength(acc, "completedTasks", completed)
      ELSE AddLength(AddLength(acc, "completedTasks", completed),
                     "incompleteTasks", incomplete)

\* the forEach of fromReports: rows of fewer than 9 cells and rows of
\* other users are passed over; the score is a number cell
RECURSIVE ForEachRow(_, _, _)
ForEachRow(rows, userId, acc) ==
  IF Len(rows) = 0 THEN acc
  ELSE LET row == rows[1]
       IN  ForEachRow(Tail(rows), userId,
             IF Len(row) < 9 THEN acc
             ELSE IF row[3] # userId THEN acc
             ELSE CountTasks([acc EXCEPT !.totalReports = @ + 1,
                                         !.totalState = @ + row[5]], row))

\* UserStats.fromReports(reportRows, userId)
FromReports(reportRows, userId) ==
  LET acc == ForEachRow(reportRows, userId,
               [totalReports |-> 0, totalState |-> 0,
                completedTasks |-> 0, incompleteTasks |-> 0])
      totalTasks == acc.completedTasks + acc.incompleteTasks
  IN  NewReportStats(
        [totalReports |-> acc.totalReports,
         averageState |-> IF acc.totalReports > 0
                          THEN RoundDiv(acc.totalState * 10, acc.totalReports)
                          ELSE 0,
         completedTasks |-> acc.completedTasks,
         incompleteTasks |-> acc.incompleteTasks,
         completionRate |-> IF totalTasks > 0
                            THEN RoundDiv(acc.completedTasks * 100, totalTasks)
                            ELSE 0])

\* WeeklyReport.toSheetRow of the report model that holds a week number
ToSheetRow(report) ==
  <<report.weekNumber, report.date, report.userId, report.username,
    report.state, JsonStringify(report.completedTasks),
    JsonStringify(report.incompleteTasks), JsonStringify(report.nextWeekPlans),
    report.comment>>

\* the week number _startNewReport computes on the date: the time of day
\* makes the quotient fractional, so Math.ceil gives the whole part plus one
WeekNumber(date) == ((date[2] + GetDay(date[1]) + 1) \div 7) + 1

\* the draft _startNewReport builds on the date: the constructor takes
\* date and userId of its argument and has no field for the week number
StartedReport(userId, date) == [NewWeeklyReport(userId) EXCEPT !.date = date]

ReportsObs(kind, userId, limit, date, out) ==
  [kind |-> kind, userId |-> userId, limit |-> limit, ok |-> ~out.raised,
   val |-> out.val, rowsBefore |-> sheets.Reports,
   week |-> IF date = <<>> THEN 0 ELSE WeekNumber(date),
   agg |-> FromReports(ReadRange(sheets, ColumnsRange(ReportsSheet, "A:G")), userId)]

\* the date of the last stored row
LastDate ==
  IF sheets.Reports = <<>> THEN <<1, 0>>
  ELSE sheets.Reports[Len(sheets.Reports)][3]

\* a report started on the date is filled in and saved
RSaveReport ==
  \E u \in ReportUsers, tasks \in TaskLists, date \in Dates :
    /\ Len(sheets.Reports) < MaxSaved
    /\ NotBefore(date, LastDate)
    /\ \E out \in {SaveReport(Machine({}, 0),
                     Some([StartedReport(u, date) EXCEPT
                             !.id = <<"id", NumTok(Len(sheets.Reports) + 1)>>,
                             !.completedTasks = tasks[1],
                             !.plannedTasks = tasks[2]]))} :
         /\ StoreApply(out)
         /\ last' = ReportsObs("saveReport", u, 0, date, out)

RGetUserReports ==
  \E u \in ReportUsers, limit \in Limits :
    \E out \in {GetUserReports(Machine({}, 0), u, limit)} :
      /\ StoreApply(out)
      /\ last' = ReportsObs("getUserReports", u, limit, <<>>, out)

RGetUserStats ==
  \E u \in ReportUsers :
    \E out \in {GetUserStats(Machine({}, 0), u)} :
      /\ StoreApply(out)
      /\ last' = ReportsObs("getUserStats", u, 0, <<>>, out)

\* the rows of reports in the layout of toSheetRow: the scores and task
\* counts of the reference records, for either user
SheetRows ==
  {ToSheetRow([weekNumber |-> 1, date |-> <<1, 0>>, userId |-> u,
               username |-> <<"name">>, state |-> c[1],
               completedTasks |-> [i \in 1..c[2] |-> T_task],
               incompleteTasks |-> [i \in 1..c[3] |-> T_task],
               nextWeekPlans |-> <<>>, comment |-> <<>>]) :
     u \in ReportUsers, c \in {<<4, 2, 1>>, <<6, 1, 1>>, <<8, 3, 0>>}}

\* before the callers' operations, fromReports is applied to rows in the
\* layout of toSheetRow
RFromReports ==
  /\ last = NoObs
  /\ \E n \in 1..MaxSaved, u \in ReportUsers :
       \E rows \in [1..n -> SheetRows] :
         /\ last' = [kind |-> "fromReports", userId |-> u, rows |-> rows,
                     val |-> FromReports(rows, u)]
         /\ UNCHANGED <<context, sheets, cache, now, scn, written, got, svc,
                        flight, sm>>

NextReports == RSaveReport \/ RGetUserReports \/ RGetUserStats \/ RFromReports

SpecReports == Init /\ [][NextReports]_vars

\* the ids of the records in reports, in their order
Ids(reports) == [i \in 1..Len(reports) |-> reports[i].id]

\* s is the end of t
IsSuffix(s, t) ==
  Len(s) <= Len(t) /\ s = SubSeq(t, Len(t) - Len(s) + 1, Len(t))

\* C28: getUserReports(userId, limit) returns only records of userId, in
\* the order of the store with the most recent last, and never more than
\* limit entries, for every limit >= 0
C28_UserReports ==
  (last.kind = "getUserReports" /\ last.ok) =>
    /\ \A i \in 1..Len(last.val) : last.val[i].userId = last.userId
    /\ IsSuffix(Ids(last.val),
                [i \in 1..Len(RowsOfUser(last.rowsBefore, last.userId)) |->
                   RowsOfUser(last.rowsBefore, last.userId)[i][1]])
    /\ Len(last.val) <= last.limit

\* the sum of the lengths of the lists in cell i of the rows
RECURSIVE SumOfLists(_, _)
SumOfLists(rows, i) ==
  IF Len(rows) = 0 THEN 0
  ELSE Len(ListCell(rows[1], i)) + SumOfLists(Tail(rows), i)

\* the rows of the user among rows in the layout of toSheetRow
SheetRowsOfUser(rows, userId) == SelectSeq(rows, LAMBDA row : row[3] = userId)

\* the sum of cell i of the rows, a number or a serialized list
RECURSIVE SumOfCells(_, _)
SumOfCells(rows, i) ==
  IF Len(rows) = 0 THEN 0
  ELSE (IF i = 5 THEN rows[1][i] ELSE JsonParse(rows[1][i]).len)
         + SumOfCells(Tail(rows), i)

\* the reference records: scores 4, 6, 8 with task counts (2,1), (1,1), (3,0)
ReferenceRows(u) ==
  [k \in 1..3 |->
     LET c == << <<4, 2, 1>>, <<6, 1, 1>>, <<8, 3, 0>> >>[k]
     IN  ToSheetRow([weekNumber |-> 1, date |-> <<1, 0>>, userId |-> u,
                     username |-> <<"name">>, state |-> c[1],
                     completedTasks |-> [i \in 1..c[2] |-> T_task],
                     incompleteTasks |-> [i \in 1..c[3] |-> T_task],
                     nextWeekPlans |-> <<>>, comment |-> <<>>])]

\* st aggregates n records with the score sum total and the task sums done
\* and plans; the mean is held to one decimal, in tenths
Aggregates(st, n, total, done, plans) ==
  /\ st.totalReports = n
  /\ st.averageState = (IF n > 0 THEN RoundDiv(total * 10, n) ELSE 0)
  /\ st.completedTasks = done
  /\ st.incompleteTasks = plans
  /\ st.completionRate = (IF done + plans > 0 THEN RoundDiv(done * 100, done + plans) ELSE 0)

\* C29: the statistics of a user aggregate that user's persisted records:
\* totalReports is their number, averageState their mean score, the task
\* totals the sums of the lengths of their lists, completionRate the
\* rounded percentage of completed tasks; getUserStats answers with the
\* same counts; the reference records give 3, 6.0 and 6
C29_StatsAggregate ==
  /\ (last.kind = "getUserStats" /\ last.ok
        /\ RowsOfUser(last.rowsBefore, last.userId) # <<>>) =>
       LET mine == RowsOfUser(last.rowsBefore, last.userId)
       IN  /\ last.agg.totalReports = Len(mine)
           /\ last.agg.completedTasks = SumOfLists(mine, 5)
           /\ last.agg.incompleteTasks = SumOfLists(mine, 6)
           /\ IsSome(last.val)
           /\ Get(last.val).reportsCount = Len(mine)
           /\ Get(last.val).completedTasksCount = SumOfLists(mine, 5)
           /\ Get(last.val).plannedTasksCount = SumOfLists(mine, 6)
  /\ last.kind = "fromReports" =>
       LET mine == SheetRowsOfUser(last.rows, last.userId)
       IN  /\ Aggregates(last.val, Len(mine), SumOfCells(mine, 5),
                         SumOfCells(mine, 6), SumOfCells(mine, 7))
           /\ last.rows = ReferenceRows(last.userId) =>
                /\ last.val.totalReports = 3
                /\ last.val.averageState = 60
                /\ last.val.completedTasks = 6

\* the week numbers of the stored rows, each the one _startNewReport
\* computed on the row's date
WeeksOf(rows) == {WeekNumber(rows[i][3]) : i \in 1..Len(rows)}

\* the greatest of the week numbers of the rows, 0 when there is no row
MaxWeek(rows) ==
  IF rows = <<>> THEN 0
  ELSE CHOOSE w \in WeeksOf(rows) : \A v \in WeeksOf(rows) : v <= w

\* C30: the week number of each report is a positive integer that increases
\* across the successive submitted reports of a user: a new draft gets one
\* more than the greatest week number of the persisted records, or 1 when
\* there is none
C30_WeekNumber ==
  (last.kind = "saveReport" /\ last.ok) =>
    /\ last.week >= 1
    /\ last.week = MaxWeek(last.rowsBefore) + 1
    /\ \A w \in WeeksOf(RowsOfUser(last.rowsBefore, last.userId)) : w < last.week

\* s is the beginning of t
IsPrefix(s, t) == Len(s) <= Len(t) /\ s = SubSeq(t, 1, Len(s))

\* C31: the rows of the reports sheet are immutable: no operation changes
\* or removes a row, so in every step the rows before it are the beginning
\* of the rows after it
C31_ReportsImmutable == [][IsPrefix(sheets.Reports, sheets'.Reports)]_vars
\* a second report of a user has been saved: its row was appended and the
\* user's row of the users sheet written over
C31_Witness ==
  /\ last.kind = "saveReport" /\ last.ok
  /\ Len(last.rowsBefore) = 2 /\ Len(sheets.Reports) = 3
  /\ RowsOfUser(last.rowsBefore, last.userId) # <<>>
  /\ Len(sheets.Users) < Len(sheets.Reports)

\* the submission of the draft reported a failure and the draft is kept for
\* another submission
SubmissionFailed ==
  /\ last.kind = "message" /\ last.from = ENTERING_COMMENT
  /\ last.saves # <<>> /\ IsSome(last.saves[1])
  /\ Attempted("save_failed")
  /\ context.weeklyReport = last.saves[1]

\* C32: when the submission reports a failure and keeps the draft, no row
\* of the draft has been appended to the reports sheet, whichever step
\* failed: the append, the update of the statistics or a message
C32_NoRowOfKeptDraft == SubmissionFailed => last.appended = 0

\* C33: after every update the session holds a draft when its state is one
\* of the states of the report flow, and holds none when its state is the
\* initial state
C33_DraftIffInFlow ==
  /\ CurrentStateName(context) \in FlowStates => IsSome(context.weeklyReport)
  /\ CurrentStateName(context) = NONE => context.weeklyReport = None

(***************************************************************************)
(* A read and a write of one sheet in flight together.  getData(range)     *)
(* has missed the cache and appendData(range2, values) has been called     *)
(* for the same sheet; each waits for the spreadsheet, which answers the   *)
(* two requests in any order, and each runs on when its answer arrives.    *)
(* flight.read is the getData: pc where it is, rows what the spreadsheet   *)
(* answered; flight.write the appendData; flight.order the steps taken so  *)
(* far.  When both have returned, last tells the sheet and whether the     *)
(* write and its invalidation both fell between the read's fetch and its   *)
(* cache.set (between).                                                    *)
(***************************************************************************)
\* the appendData calls: the range and the row
Appends ==
  {[range |-> UsersAI, values |-> <<row>>] : row \in UserRows}
    \cup {[range |-> ReportsAG, values |-> <<AReportRow>>]}

\* getData up to the request: cache.get misses (an expired entry is deleted)
\* and spreadsheets.values.get is asked for
OverlapCall ==
  \E range \in ColumnRanges, w \in Appends :
    /\ flight = NoFlight
    /\ SheetOf(range) = SheetOf(w.range)
    /\ Len(sheets[SheetOf(range)]) < MaxRows
    /\ ~IsSome(CacheGet(cache, now, CacheKeyOf(range)).value)
    /\ cache' = CacheGet(cache, now, CacheKeyOf(range)).cache
    /\ flight' = [read |-> [pc |-> "asked", range |-> range, rows |-> <<>>],
                  write |-> [pc |-> "asked", range |-> w.range, values |-> w.values],
                  order |-> <<>>]
    /\ last' = [NoObs EXCEPT !.kind = "call"]
    /\ UNCHANGED <<context, sheets, now, scn, written, got, svc, sm>>

Overlapping == flight # NoFlight

\* the spreadsheet answers the read with the rows it holds
OverlapFetch ==
  /\ Overlapping /\ flight.read.pc = "asked"
  /\ flight' = [flight EXCEPT !.read.pc = "fetched",
                              !.read.rows = ReadRange(sheets, flight.read.range),
                              !.order = Append(@, "fetch")]
  /\ UNCHANGED <<context, sheets, cache, now, last, scn, written, got, svc, sm>>

\* the answer has arrived: cache.set(cacheKey, result, 300) and return
OverlapSet ==
  /\ Overlapping /\ flight.read.pc = "fetched"
  /\ cache' = CacheSet(cache, now, CacheKeyOf(flight.read.range),
                       flight.read.rows, DataTtl)
  /\ flight' = [flight EXCEPT !.read.pc = "done", !.order = Append(@, "set")]
  /\ UNCHANGED <<context, sheets, now, last, scn, written, got, svc, sm>>

\* the spreadsheet appends the rows
OverlapAppend ==
  /\ Overlapping /\ flight.write.pc = "asked"
  /\ sheets' = [sheets EXCEPT ![SheetOf(flight.write.range)] = @ \o flight.write.values]
  /\ flight' = [flight EXCEPT !.write.pc = "appended", !.order = Append(@, "append")]
  /\ UNCHANGED <<context, cache, now, last, scn, written, got, svc, sm>>

\* the answer has arrived: cache.deleteByPattern of the sheet's prefix and
\* return
OverlapInvalidate ==
  /\ Overlapping /\ flight.write.pc = "appended"
  /\ cache' = CacheDeleteByPattern(
                cache, <<"sheets_", SpreadsheetId, "_", SheetOf(flight.write.range)>>)
  /\ flight' = [flight EXCEPT !.write.pc = "done", !.order = Append(@, "invalidate")]
  /\ UNCHANGED <<context, sheets, now, last, scn, written, got, svc, sm>>

\* both calls have returned
OverlapEnd ==
  /\ Overlapping /\ flight.read.pc = "done" /\ flight.write.pc = "done"
  /\ last' = [kind |-> "overlap", sheet |-> SheetOf(flight.read.range),
              between |-> (flight.order = <<"fetch", "append", "invalidate", "set">>)]
  /\ flight' = NoFlight
  /\ UNCHANGED <<context, sheets, cache, now, scn, written, got, svc, sm>>

NextOverlap ==
  OverlapCall \/ OverlapFetch \/ OverlapSet \/ OverlapAppend \/ OverlapInvalidate
    \/ OverlapEnd

SpecOverlap == Init /\ [][NextOverlap]_vars

\* C34: when the write and its invalidation both fell between the fetch
\* and the cache.set of a getData of the same sheet, then after both have
\* returned every live cache entry of the sheet holds the rows as they are
\* after the write
C34_NoStaleAfterOverlap ==
  (last.kind = "overlap" /\ last.between) =>
    \A range \in ColumnRanges :
      (SheetOf(range) = last.sheet
         /\ IsSome(CacheGet(cache, now, CacheKeyOf(range)).value)) =>
        Get(CacheGet(cache, now, CacheKeyOf(range)).value) = ReadRange(sheets, range)

\* C35: the session store never holds two context objects of one user:
\* when loadSession answers a getContext and the map already holds a
\* context of the user, put there by an overlapping call, getContext
\* returns that context
C35_OneContextPerUser ==
  (last.kind = "getContext" /\ IsSome(last.held)) => last.ret = Get(last.held)

\* the rows of the user in the users sheet
UserRowsOf(rows, userId) == SelectSeq(rows, LAMBDA row : row[1] = userId)

\* C36: after any sequence of successful saveReport calls the users sheet
\* holds exactly one row for every user with a saved report and none for
\* the others; the row's reportsCount is the number of the user's saved
\* reports and its task counters are the sums over those reports
C36_UserCounters ==
  \A u \in ReportUsers :
    LET mine == RowsOfUser(sheets.Reports, u)
        rows == UserRowsOf(sheets.Users, u)
    IN  IF mine = <<>> THEN rows = <<>>
        ELSE /\ Len(rows) = 1
             /\ rows[1][7] = Len(mine)
             /\ rows[1][8] = SumOfLists(mine, 5)
             /\ rows[1][9] = SumOfLists(mine, 6)


(***************************************************************************)
(* Where the retry policy stops, checked under SpecRetry.                  *)
(***************************************************************************)
\* the attempt is the last one: fn returned, or the classifier did not
\* answer "retryable" for its error, or no retry is left
StopsAt(fn, i) ==
  \/ ~OutcomeAt(fn, i).fails
  \/ ~ClassifiedRetryable(OutcomeAt(fn, i))
  \/ i = maxRetries + 1

FirstStop(fn) ==
  CHOOSE i \in 1..(maxRetries + 1) :
    StopsAt(fn, i) /\ \A j \in 1..(i - 1) : ~StopsAt(fn, j)

\* C37: for every sequence of attempt outcomes withRetry makes its last
\* call of the operation at the first success, at the first error that is
\* not retried, or at attempt maxRetries + 1, whichever comes first; it
\* returns exactly when that attempt returned, and it has slept once
\* before every attempt but the first
C37_StopsAtFirstEnd ==
  last.kind = "withRetry" =>
    /\ last.calls = FirstStop(last.fn)
    /\ last.calls <= maxRetries + 1
    /\ last.thrown = OutcomeAt(last.fn, FirstStop(last.fn)).fails
    /\ Len(last.delays) = last.calls - 1

\* a retryable failure, then a success that later failures follow: the
\* operation is not called a third time
C37_Witness ==
  /\ last.kind = "withRetry" /\ Len(last.fn) = 3
  /\ ClassifiedRetryable(last.fn[1])
  /\ ~last.fn[2].fails
  /\ last.fn[3].fails
  /\ last.calls = 2 /\ ~last.thrown


(***************************************************************************)
(* The periodic sweep, checked under SpecCache.                            *)
(***************************************************************************)
\* a step of the timer that removed something: no call was made (the run
\* without the timer stands still) and the clock did not move
SweepStep ==
  /\ cache' # cache
  /\ got' = None /\ now' = now /\ written' = written /\ last' = last

\* C38: a sweep removes the entries whose expiry has passed (Date.now() is
\* greater than expires, the test get makes) and leaves every other entry
\* as it was; and whatever sweeps have run between the calls, every get
\* returns what it returns in the same run of set, get, delete,
\* deleteByPattern and clear calls without any sweep
C38_SweepInvisible ==
  [][/\ IsSome(got') => Get(got').value = Get(got').plain
     /\ SweepStep =>
          /\ DOMAIN cache' = {k \in DOMAIN cache : ~Expired(now, cache[k])}
          /\ \A k \in DOMAIN cache' : cache'[k] = cache[k]]_vars

\* a get of a key whose entry a sweep has removed, while the run without
\* sweeps still held it
C38_Witness ==
  /\ IsSome(got) /\ Get(got).swept
  /\ IsSome(Get(got).set)
  /\ Get(got).value = None /\ Get(got).plain = None


(***************************************************************************)
(* The sessions of different users, checked under SpecSession.             *)
(***************************************************************************)
\* the context getContext(u) would return from memory: its state name,
\* draft, flags and data
SessionOf(s, u) ==
  IF IsSome(s.sessions[u]) THEN Some(s.heap[Get(s.sessions[u])]) ELSE None

\* a step of the handling of an update, or of a call, for user a
StepFor(a) ==
  /\ last'.kind \in {"getContext", "loadSession", "saveContext", "clearContext"}
  /\ last'.user = a

\* C39: a step made for user A (getContext, initializeState, a transition,
\* the start of a draft, the saves they make, clearContext) leaves for every
\* other user the context in memory, every context object of that user a
\* handler holds, and what the saveSession hook has kept for the user, as
\* they were
C39_OtherUsersUnchanged ==
  [][\A a, b \in SessionUsers :
       (a # b /\ StepFor(a)) =>
         /\ SessionOf(sm', b) = SessionOf(sm, b)
         /\ sm'.stored[b] = sm.stored[b]
         /\ \A id \in 1..Len(sm.heap) :
              sm.heap[id].userId = b => sm'.heap[id] = sm.heap[id]]_vars

\* a draft was started and saved for user 2 while user 1 is in memory in
\* another state and without a draft
C39_Witness ==
  /\ last.kind = "saveContext" /\ last.user = "2"
  /\ IsSome(sm.sessions["1"]) /\ IsSome(sm.sessions["2"])
  /\ IsSome(SessionOf(sm, "2")[1].ctx.weeklyReport)
  /\ SessionOf(sm, "1")[1].ctx.state = NONE
  /\ SessionOf(sm, "1")[1].ctx.weeklyReport = None
  /\ SessionOf(sm, "1")[1].userId = "1"


(***************************************************************************)
(* The phase of the task entry, checked under Spec.                        *)
(***************************************************************************)
\* C40: context.taskPhase is set only while the session is in adding_tasks
\* (the exits by /done or /skip in the phase of the plans and by /cancel
\* delete it), and a session that an update has brought into adding_tasks
\* from another state is in the phase of the unfinished tasks
C40_PhaseOnlyInAddingTasks ==
  /\ context.taskPhase # "undefined" => CurrentStateName(context) = ADDING_TASKS
  /\ (/\ last.kind \in {"message", "callback"}
      /\ last.from # ADDING_TASKS
      /\ CurrentStateName(context) = ADDING_TASKS)
       => PhaseOf([ctx |-> context]) = "incompleteTasks"

\* the plans were ended: the session has left adding_tasks for the comment
\* with the list of the plans made, and the phase is deleted
C40_Witness ==
  /\ last.kind = "message" /\ last.from = ADDING_TASKS
  /\ CurrentStateName(context) = ENTERING_COMMENT
  /\ IsSome(context.weeklyReport)
  /\ IsSome(Get(context.weeklyReport).nextWeekPlans)
  /\ context.taskPhase = "undefined"

=============================================================================
